---- MODULE Spec2Model ----
(***************************************************************************)
(* Model of the network object replicator of FlaxEngine                    *)
(* (Source/Engine/Networking/NetworkReplicator.cpp): one server and a few   *)
(* clients, each running the replicator over its own registry, queues and  *)
(* id remapping table, joined by reliable-ordered and unreliable channels. *)
(***************************************************************************)
EXTENDS Integers, Sequences, FiniteSets, TLC

\* ------------------------------------------------------------------ bounds
NumClients == 2
MaxFrame == 2
MaxChan == 2
MaxNew == 1
NumTypes == 3
MaxSteps == 5
SessionSteps == 3

\* ------------------------------------------------------- program constants
\* NetworkManager::ServerClientId: the server is client id 0.
ServerClientId == 0
\* Guid::Empty
GuidEmpty == 0
\* The handlers' `NetworkClient* client` argument when it is nullptr.
NullClient == -1
\* The result of ResolveObject when it is nullptr.
NullEntry == 0
\* ScriptingTypeHandle() (no type): the end of a base-type chain.
NullType == 0

RoleNone == "None"
RoleOwnedAuthoritative == "OwnedAuthoritative"
RoleReplicated == "Replicated"
Roles == {RoleNone, RoleOwnedAuthoritative, RoleReplicated}

Clients == 1..NumClients
Peers == {ServerClientId} \cup Clients
Types == 1..NumTypes

IsClient(p) == p # ServerClientId
LocalClientId(p) == p

\* ----------------------------------------------------------- object ids
\* Guids are drawn per process and never collide; objects loaded from the
\* shared scene carry the same Guid on every peer.
SceneId == 1
ServerObjectId == 2
PoolBase(p) == (p + 1) * 10
LocalIds(p) == IF IsClient(p) THEN {PoolBase(p) + 1} ELSE {ServerObjectId}
FreshIds(p) == {PoolBase(p) + 1 + k : k \in 1..MaxNew}
\* An id a remote process gave an object this process has never seen.
RemoteId == 3
\* Ids of other processes' objects, as they arrive in messages.
ForeignIds(p) == IF IsClient(p) THEN {ServerObjectId, RemoteId}
                 ELSE {PoolBase(c) + 1 : c \in Clients}
\* A second object the server's game holds in a running session.
SecondObjectId == 4
AllGuids == {SceneId, RemoteId, SecondObjectId} \cup UNION {LocalIds(p) \cup FreshIds(p) : p \in Peers}

\* The type and the structural parent (SceneObject::GetParent) of the
\* objects the game holds when the session starts.
InitialType(id) == 2
InitialParent(id) == GuidEmpty

VARIABLES
    Objects,            \* [peer -> [ObjectId -> NetworkReplicatedObject]]
    Heap,               \* [peer -> [Guid -> live ScriptingObject]]
    NextGuid,           \* [peer -> number of objects the peer has created]
    SpawnQueue,         \* [peer -> Seq(Guid)]
    DespawnQueue,       \* [peer -> Seq(Guid)]
    IdsRemappingTable,  \* [peer -> [Guid -> Guid]]
    NewClients,         \* the server's list of peers that joined since its last tick
    SerializersTable,   \* [peer -> [type -> "explicit" | "interface"]]
    TypeBase,           \* [type -> base type or NullType]
    TypeInterface,      \* the types implementing INetworkSerializable
    Connected,          \* NetworkManager::Clients in state Connected
    Frame,              \* NetworkManager::Frame of the server
    Reliable,           \* [<<from, to>> -> Seq(message)], reliable ordered
    Unreliable,         \* [client -> set of ObjectReplicate messages in flight]
    Stopped,            \* peers whose process does not run: not part of the run, or
                        \* stopped by a failed assertion or a null dereference
    Last,               \* the last operation, its outcome and its sends in order (history)
    SpawnCount,         \* [peer -> [Guid -> Spawn messages the spawn flush sent]] (history)
    DespawnCount,       \* [peer -> [Guid -> Despawn messages sent]] (history)
    DespawnCalls,       \* [peer -> [Guid -> outcome of despawn with a spawn pending]] (history)
    HighestAccepted,    \* [peer -> [Guid -> highest sequence accepted since the entry's
                        \* LastOwnerFrame was reset, 0 if none]] (history)
    Despawned,          \* [peer -> ids of the Despawn messages it took off a connection] (history)
    SpawnSent,          \* [client -> ids of the Spawn messages the server sent it] (history)
    Locking,            \* ObjectsLock: its owner and depth, and where each thread is in the
                        \* function it runs
    Steps               \* the number of operations run so far

vars == <<Objects, Heap, NextGuid, SpawnQueue, DespawnQueue, IdsRemappingTable,
          NewClients, SerializersTable, TypeBase, TypeInterface, Connected, Frame,
          Reliable, Unreliable, Stopped, Last, SpawnCount, DespawnCount,
          DespawnCalls, HighestAccepted, Despawned, SpawnSent, Locking, Steps>>

netVars == <<Reliable, Unreliable>>
typeVars == <<TypeBase, TypeInterface>>
histVars == <<SpawnCount, DespawnCount, DespawnCalls, HighestAccepted, Despawned, SpawnSent>>

\* ------------------------------------------------------------- threads
\* The threads that enter the replicator: the simulation thread, which calls
\* the public API and runs the tick, and the network I/O thread.
Threads == {"simulation", "network"}
NoThread == "none"
Idle == <<"idle", 0>>
\* ObjectsLock free and every thread outside the replicator.
LockFree == [owner |-> NoThread, depth |-> 0, pc |-> [t \in Threads |-> Idle]]

\* ------------------------------------------------------------- helpers
\* The iteration order of a HashSet or Dictionary depends on the hashes of
\* the Guids it holds: a loop that stops at its first match may stop at the
\* smallest or at the largest id.
Orders == {"asc", "desc"}
Range(f) == {f[x] : x \in DOMAIN f}
SeqRemove(s, x) == SelectSeq(s, LAMBDA y : y # x)
InSeq(s, x) == \E i \in 1..Len(s) : s[i] = x
MaxOf(S) == CHOOSE x \in S : \A y \in S : y <= x
MinOf(S) == CHOOSE x \in S : \A y \in S : x <= y

RECURSIVE SortedSeq(_)
SortedSeq(S) == IF S = {} THEN <<>> ELSE <<MinOf(S)>> \o SortedSeq(S \ {MinOf(S)})

EmptyMap == [x \in {} |-> 0]

\* f with key k bound to v (Dictionary/HashSet insertion).
Put(f, k, v) == [x \in DOMAIN f \cup {k} |-> IF x = k THEN v ELSE f[x]]
\* f without key k.
Drop(f, k) == [x \in DOMAIN f \ {k} |-> f[x]]

\* History records: the operation, its outcome and the messages it sent.
Sent(op, p, id, client, frame, res, sends) ==
    [op |-> op, res |-> res, sends |-> sends]
Event(op, p, id, client, frame, res) == Sent(op, p, id, client, frame, res, <<>>)
NoOp(op, p, id) == Event(op, p, id, NullClient, 0, "noop")

\* ------------------------------------------------------- serializer table
\* NetworkReplicator::AddSerializer: the registration overwrites the entry.
AddSerializerTo(table, typeHandle) ==
    IF typeHandle = NullType THEN table ELSE Put(table, typeHandle, "explicit")

\* An InvokeSerializer that asks the type for the interface before it looks
\* the type up in the table.
RECURSIVE InvokeSerializerInterfaceFirst(_, _)
InvokeSerializerInterfaceFirst(table, typeHandle) ==
    IF typeHandle = NullType
    THEN [failed |-> TRUE, table |-> table, via |-> "none", at |-> NullType]
    ELSE IF typeHandle \in TypeInterface
    THEN [failed |-> FALSE, table |-> Put(table, typeHandle, "interface"),
          via |-> "interface", at |-> typeHandle]
    ELSE IF typeHandle \in DOMAIN table
    THEN [failed |-> FALSE, table |-> table, via |-> table[typeHandle], at |-> typeHandle]
    ELSE IF TypeBase[typeHandle] # NullType
    THEN InvokeSerializerInterfaceFirst(table, TypeBase[typeHandle])
    ELSE [failed |-> TRUE, table |-> table, via |-> "none", at |-> NullType]

\* NetworkReplicator::InvokeSerializer on a non-null instance and stream:
\* failed, the table afterwards (an interface entry is cached), and which
\* entry of which type served the call.
RECURSIVE InvokeSerializer(_, _)
InvokeSerializer(table, typeHandle) ==
    IF typeHandle = NullType
    THEN [failed |-> TRUE, table |-> table, via |-> "none", at |-> NullType]
    ELSE IF typeHandle \in DOMAIN table
    THEN [failed |-> FALSE, table |-> table, via |-> table[typeHandle], at |-> typeHandle]
    ELSE IF typeHandle \in TypeInterface
    THEN [failed |-> FALSE, table |-> Put(table, typeHandle, "interface"),
          via |-> "interface", at |-> typeHandle]
    ELSE IF TypeBase[typeHandle] # NullType
    THEN InvokeSerializer(table, TypeBase[typeHandle])
    ELSE [failed |-> TRUE, table |-> table, via |-> "none", at |-> NullType]

\* ------------------------------------------------------------ transport
\* NetworkManager::State != Offline: the server hosts from the start, a
\* client is online once it is connected.
Online(p) == ~IsClient(p) \/ p \in Connected

Channels == {<<ServerClientId, c>> : c \in Clients} \cup {<<c, ServerClientId>> : c \in Clients}

\* A channel that hands over the newest message first.
SendReliableNewestFirst(rel, from, targets, msg) ==
    [k \in DOMAIN rel |-> IF k[1] = from /\ k[2] \in targets \ Stopped
                          THEN <<msg>> \o rel[k] ELSE rel[k]]

\* peer->EndSendMessage(ReliableOrdered, msg [, targets]): the message is
\* appended to the ordered channel to each target whose process runs; what is
\* sent to a process that does not run is never received.
SendReliable(rel, from, targets, msg) ==
    [k \in DOMAIN rel |-> IF k[1] = from /\ k[2] \in targets \ Stopped
                          THEN Append(rel[k], msg) ELSE rel[k]]

\* peer->EndSendMessage(Unreliable, msg, targets)
SendUnreliable(unrel, targets, msg) ==
    [c \in DOMAIN unrel |-> IF c \in targets \ Stopped THEN unrel[c] \cup {msg} ELSE unrel[c]]

\* A client sends to the server; the server to the given connections.
TargetsOf(p, cachedTargets) == IF IsClient(p) THEN {ServerClientId} ELSE cachedTargets

RECURSIVE SendAll(_, _, _)
SendAll(rel, from, sends) ==
    IF sends = <<>> THEN rel
    ELSE SendAll(IF sends[1].msg.kind = "Replicate" THEN rel
                 ELSE SendReliable(rel, from, sends[1].targets, sends[1].msg),
                 from, Tail(sends))

RECURSIVE SendAllUnreliable(_, _)
SendAllUnreliable(unrel, sends) ==
    IF sends = <<>> THEN unrel
    ELSE SendAllUnreliable(IF sends[1].msg.kind = "Replicate"
                           THEN SendUnreliable(unrel, sends[1].targets, sends[1].msg)
                           ELSE unrel,
                           Tail(sends))

ChanOk(rel) == \A k \in DOMAIN rel : Len(rel[k]) <= MaxChan

\* ------------------------------------------------------------- messages
SpawnMsg(objectId, parentId, owner, typeName) ==
    [kind |-> "Spawn", ObjectId |-> objectId, ParentId |-> parentId,
     OwnerClientId |-> owner, ObjectTypeName |-> typeName, OwnerFrame |-> 0]
DespawnMsg(objectId) ==
    [kind |-> "Despawn", ObjectId |-> objectId, ParentId |-> GuidEmpty,
     OwnerClientId |-> 0, ObjectTypeName |-> NullType, OwnerFrame |-> 0]
RoleMsg(objectId, owner) ==
    [kind |-> "Role", ObjectId |-> objectId, ParentId |-> GuidEmpty,
     OwnerClientId |-> owner, ObjectTypeName |-> NullType, OwnerFrame |-> 0]
ReplicateMsg(frame, objectId, parentId, typeName) ==
    [kind |-> "Replicate", ObjectId |-> objectId, ParentId |-> parentId,
     OwnerClientId |-> 0, ObjectTypeName |-> typeName, OwnerFrame |-> frame]

\* ------------------------------------------------------------- registry
\* struct NetworkReplicatedObject; the Object reference is the live object
\* of the same id in Heap, and reads null once that object is deleted.
NewItem(objectId, parentId, owner, role, spawned) ==
    [ObjectId |-> objectId, ParentId |-> parentId, OwnerClientId |-> owner,
     LastOwnerFrame |-> 0, Role |-> role, Spawned |-> spawned, InvalidTypeWarn |-> FALSE]

\* item.Object.Get() != nullptr
ObjectAlive(p, id) == id \in DOMAIN Heap[p]

\* IdsRemappingTable.TryGet(id, id): the mapped id, or id unchanged.
TryGet(table, id) == IF id \in DOMAIN table THEN table[id] ELSE id

\* IdsRemappingTable.KeyOf(id, &id): a key bound to id if there is one
\* (which one is the dictionary's iteration order), else id unchanged.
KeyOf(table, id, order) ==
    LET keys == {k \in DOMAIN table : table[k] = id}
    IN  IF keys = {} THEN id
        ELSE IF order = "asc" THEN MinOf(keys) ELSE MaxOf(keys)

\* ResolveObject(Guid): the id of the entry found, or NullEntry.
ResolveObject(objs, table, objectId) ==
    IF objectId \in DOMAIN objs THEN objectId
    ELSE IF TryGet(table, objectId) \in DOMAIN objs THEN TryGet(table, objectId)
    ELSE NullEntry

\* The orders that can make a difference to peer p: there is more than one
\* only when two keys of the remapping table share a value or two live
\* untouched entries share parent and type.
OrdersAt(p) ==
    IF \/ \E k1, k2 \in DOMAIN IdsRemappingTable[p] :
             k1 # k2 /\ IdsRemappingTable[p][k1] = IdsRemappingTable[p][k2]
       \/ \E i1, i2 \in DOMAIN Objects[p] \cap DOMAIN Heap[p] :
             /\ i1 # i2
             /\ Objects[p][i1].LastOwnerFrame = 0 /\ Objects[p][i2].LastOwnerFrame = 0
             /\ Objects[p][i1].ParentId = Objects[p][i2].ParentId
             /\ Heap[p][i1].Type = Heap[p][i2].Type
    THEN Orders ELSE {"asc"}

\* ------------------------------------------------------------ public API
\* The objects a caller passes: the live objects of the process.
ObjectArgs(p) == DOMAIN Heap[p]

\* An AddObject that registers the object again when it is already tracked.
AddObjectAgain(objs, p, obj, parent) ==
    Put(Drop(objs, obj), obj,
        NewItem(obj, IF parent = GuidEmpty THEN Heap[p][obj].Parent ELSE parent,
                ServerClientId,
                IF IsClient(p) THEN RoleReplicated ELSE RoleOwnedAuthoritative, FALSE))

\* The body of NetworkReplicator::AddObject once obj is known non-null and
\* the peer online: the registry afterwards. parent = GuidEmpty is nullptr,
\* which takes the structural parent of the object.
AddObjectTo(objs, p, obj, parent) ==
    IF obj \in DOMAIN objs THEN objs
    ELSE LET par == IF parent = GuidEmpty THEN Heap[p][obj].Parent ELSE parent
         IN  Put(objs, obj,
                 NewItem(obj, par, ServerClientId,
                         IF IsClient(p) THEN RoleReplicated ELSE RoleOwnedAuthoritative,
                         FALSE))

AddObject(p, obj, parent) ==
    /\ p \notin Stopped
    /\ IF obj = GuidEmpty \/ ~Online(p)
       THEN /\ Last' = NoOp("AddObject", p, obj)
            /\ UNCHANGED Objects
       ELSE /\ Objects' = [Objects EXCEPT ![p] = AddObjectTo(Objects[p], p, obj, parent)]
            /\ Last' = Event("AddObject", p, obj, NullClient, 0,
                             IF obj \in DOMAIN Objects[p] THEN "tracked" ELSE "added")
    /\ UNCHANGED <<Heap, NextGuid, SpawnQueue, DespawnQueue, IdsRemappingTable, NewClients,
                   SerializersTable, Connected, Frame, Stopped>>
    /\ UNCHANGED <<netVars, typeVars, histVars, Locking>>

\* An array that takes an element it already holds.
AddAlways(q, x) == Append(q, x)
\* Array::AddUnique
AddUnique(q, x) == IF InSeq(q, x) THEN q ELSE Append(q, x)

\* A SpawnObject that queues the intent whether or not the entry is spawned.
SpawnObjectQueueAlways(p, obj) == AddUnique(SpawnQueue[p], obj)

\* NetworkReplicator::SpawnObject: the spawn queue afterwards.
SpawnObjectQueue(p, obj) ==
    IF obj \in DOMAIN Objects[p] /\ Objects[p][obj].Spawned
    THEN SpawnQueue[p]
    ELSE AddUnique(SpawnQueue[p], obj)

SpawnObject(p, obj) ==
    /\ p \notin Stopped
    /\ IF obj = GuidEmpty \/ ~Online(p)
       THEN /\ Last' = NoOp("SpawnObject", p, obj)
            /\ UNCHANGED SpawnQueue
       ELSE /\ SpawnQueue' = [SpawnQueue EXCEPT ![p] = SpawnObjectQueue(p, obj)]
            /\ Last' = Event("SpawnObject", p, obj, NullClient, 0,
                             IF obj \in DOMAIN Objects[p] /\ Objects[p][obj].Spawned
                             THEN "spawned" ELSE "queued")
    /\ UNCHANGED <<Objects, Heap, NextGuid, DespawnQueue, IdsRemappingTable, NewClients,
                   SerializersTable, Connected, Frame, Stopped>>
    /\ UNCHANGED <<netVars, typeVars, histVars, Locking>>

\* The types that derive from Script (obj->Is<Script>()).
ScriptTypes == {3}

\* Script::GetParent(): the actor the script is attached to, if it is alive.
ParentOf(heap, obj) ==
    IF heap[obj].Parent \in DOMAIN heap THEN heap[obj].Parent ELSE GuidEmpty

\* The objects that go when obj is deleted: obj, and the scripts and
\* children attached to it, which an actor takes with it.
RECURSIVE Attached(_, _)
Attached(heap, objs) ==
    LET more == objs \cup {o \in DOMAIN heap : heap[o].Parent \in objs}
    IN  IF more = objs THEN objs ELSE Attached(heap, more)

\* ScriptingObject::DeleteObject: every reference to a deleted object reads
\* null from then on.
DeleteObject(heap, obj) ==
    [o \in DOMAIN heap \ Attached(heap, {obj}) |-> heap[o]]

\* A DeleteNetworkObject that deletes the object it is given, whatever it is.
DeleteNetworkObjectItself(heap, obj) == DeleteObject(heap, obj)

\* DeleteNetworkObject: a script attached to an actor takes the actor down,
\* any other object is deleted itself.
DeleteNetworkObject(heap, obj) ==
    IF heap[obj].Type \in ScriptTypes /\ ParentOf(heap, obj) # GuidEmpty
    THEN DeleteObject(heap, ParentOf(heap, obj))
    ELSE DeleteObject(heap, obj)

\* A despawn guard that does not ask whether the entry is spawned.
DespawnAllowedUnspawned(p, obj) ==
    /\ obj \in DOMAIN Objects[p]
    /\ Objects[p][obj].OwnerClientId = LocalClientId(p)

\* The guard of NetworkReplicator::DespawnObject: the object is tracked,
\* spawned and owned by the local peer.
DespawnAllowed(p, obj) ==
    /\ obj \in DOMAIN Objects[p]
    /\ Objects[p][obj].Spawned
    /\ Objects[p][obj].OwnerClientId = LocalClientId(p)

DespawnObject(p, obj) ==
    /\ p \notin Stopped
    /\ IF obj = GuidEmpty \/ ~Online(p) \/ ~DespawnAllowed(p, obj)
       THEN /\ Last' = NoOp("DespawnObject", p, obj)
            /\ UNCHANGED <<DespawnQueue, SpawnQueue, Heap, Stopped>>
       ELSE IF InSeq(DespawnQueue[p], obj)
       THEN \* ASSERT_LOW_LAYER(!DespawnQueue.Contains(id))
            /\ Stopped' = Stopped \cup {p}
            /\ Last' = Event("DespawnObject", p, obj, NullClient, 0, "assert")
            /\ UNCHANGED <<DespawnQueue, SpawnQueue, Heap>>
       ELSE /\ DespawnQueue' = [DespawnQueue EXCEPT ![p] = Append(@, obj)]
            /\ SpawnQueue' = [SpawnQueue EXCEPT ![p] = SeqRemove(@, obj)]
            /\ Heap' = [Heap EXCEPT ![p] = DeleteNetworkObject(@, obj)]
            /\ Last' = Event("DespawnObject", p, obj, NullClient, 0, "despawned")
            /\ UNCHANGED Stopped
    /\ DespawnCalls' =
          IF obj # GuidEmpty /\ Online(p) /\ InSeq(SpawnQueue[p], obj)
             /\ obj \in DOMAIN Objects[p]
             /\ Objects[p][obj].OwnerClientId = LocalClientId(p)
          THEN [DespawnCalls EXCEPT ![p][obj] =
                   IF DespawnAllowed(p, obj) THEN "cancelled" ELSE "refused"]
          ELSE DespawnCalls
    /\ UNCHANGED <<Objects, NextGuid, IdsRemappingTable, NewClients, SerializersTable,
                   Connected, Frame>>
    /\ UNCHANGED <<netVars, typeVars, SpawnCount, DespawnCount, HighestAccepted, Despawned, SpawnSent, Locking>>

\* SendObjectRoleMessage: the message and the connections it goes to.
\* A role message that goes to every connection, the sender's included.
SendObjectRoleMessageToAll(p, item, excludedClient) ==
    [msg |-> RoleMsg(item.ObjectId, item.OwnerClientId),
     targets |-> TargetsOf(p, Connected),
     phase |-> "Role"]

SendObjectRoleMessage(p, item, excludedClient) ==
    [msg |-> RoleMsg(item.ObjectId, item.OwnerClientId),
     targets |-> TargetsOf(p, Connected \ {excludedClient}),
     phase |-> "Role"]

\* NetworkReplicator::SetObjectOwnership: the entry afterwards (CHECK logs
\* and returns when its condition fails).
\* A SetObjectOwnership that lets any peer name the owner.
SetObjectOwnershipItemByAnyone(p, item, ownerClientId, localRole) ==
    IF localRole # RoleOwnedAuthoritative
    THEN [item EXCEPT !.OwnerClientId = ownerClientId, !.LastOwnerFrame = 1,
                      !.Role = localRole]
    ELSE item

\* An owner that hands the object over and keeps its own role.
SetObjectOwnershipItemKeepsRole(p, item, ownerClientId, localRole) ==
    IF item.OwnerClientId = LocalClientId(p)
    THEN IF item.OwnerClientId # ownerClientId /\ localRole # RoleOwnedAuthoritative
         THEN [item EXCEPT !.OwnerClientId = ownerClientId, !.LastOwnerFrame = 1]
         ELSE item
    ELSE IF localRole # RoleOwnedAuthoritative
         THEN [item EXCEPT !.Role = localRole]
         ELSE item

\* A SetObjectOwnership that lets a peer that is not the owner take any role.
SetObjectOwnershipItemAnyRole(p, item, ownerClientId, localRole) ==
    IF item.OwnerClientId = LocalClientId(p)
    THEN IF item.OwnerClientId # ownerClientId /\ localRole # RoleOwnedAuthoritative
         THEN [item EXCEPT !.OwnerClientId = ownerClientId, !.LastOwnerFrame = 1,
                           !.Role = localRole]
         ELSE item
    ELSE [item EXCEPT !.Role = localRole]

SetObjectOwnershipItem(p, item, ownerClientId, localRole) ==
    IF item.OwnerClientId = LocalClientId(p)
    THEN IF item.OwnerClientId # ownerClientId /\ localRole # RoleOwnedAuthoritative
         THEN [item EXCEPT !.OwnerClientId = ownerClientId, !.LastOwnerFrame = 1,
                           !.Role = localRole]
         ELSE item
    ELSE IF localRole # RoleOwnedAuthoritative
         THEN [item EXCEPT !.Role = localRole]
         ELSE item

\* Whether SetObjectOwnership reaches its SendObjectRoleMessage call.
SetObjectOwnershipSends(p, item, ownerClientId, localRole) ==
    /\ item.OwnerClientId = LocalClientId(p)
    /\ item.OwnerClientId # ownerClientId
    /\ localRole # RoleOwnedAuthoritative

SetObjectOwnership(p, obj, ownerClientId, localRole) ==
    /\ p \notin Stopped
    /\ IF obj = GuidEmpty \/ obj \notin DOMAIN Objects[p]
       THEN /\ Last' = NoOp("SetObjectOwnership", p, obj)
            /\ UNCHANGED <<Objects, Reliable, HighestAccepted>>
       ELSE LET item == Objects[p][obj]
                after == SetObjectOwnershipItem(p, item, ownerClientId, localRole)
                sends == SetObjectOwnershipSends(p, item, ownerClientId, localRole)
            IN  /\ Objects' = [Objects EXCEPT ![p][obj] = after]
                /\ Reliable' = IF sends
                               THEN SendAll(Reliable, p, <<SendObjectRoleMessage(p, after, NullClient)>>)
                               ELSE Reliable
                /\ ChanOk(Reliable')
                /\ HighestAccepted' = IF sends THEN [HighestAccepted EXCEPT ![p][obj] = 0]
                                      ELSE HighestAccepted
                /\ Last' = Sent("SetObjectOwnership", p, obj, ownerClientId, 0,
                                IF sends THEN "sent"
                                ELSE IF after # item THEN "role" ELSE "unchanged",
                                IF sends THEN <<SendObjectRoleMessage(p, after, NullClient)>>
                                ELSE <<>>)
    /\ UNCHANGED <<Heap, NextGuid, SpawnQueue, DespawnQueue, IdsRemappingTable, NewClients,
                   SerializersTable, Connected, Frame, Stopped, Unreliable>>
    /\ UNCHANGED <<typeVars, SpawnCount, DespawnCount, DespawnCalls, Despawned, SpawnSent, Locking>>

\* NetworkInternal::NetworkReplicatorClientConnected, called by the network
\* manager when a client reaches the Connected state.
NetworkReplicatorClientConnected(c) ==
    /\ c \notin Connected
    /\ {ServerClientId, c} \ Stopped # {}
    /\ Connected' = Connected \cup {c}
    /\ NewClients' = Append(NewClients, c)
    /\ Last' = Event("ClientConnected", ServerClientId, GuidEmpty, c, 0, "connected")
    /\ UNCHANGED <<Objects, Heap, NextGuid, SpawnQueue, DespawnQueue, IdsRemappingTable,
                   SerializersTable, Frame, Stopped>>
    /\ UNCHANGED <<netVars, typeVars, histVars, Locking>>

\* ------------------------------------------------------------ tick driver
\* A spawn message that goes to no connection.
SendObjectSpawnMessageToNone(p, item, cachedTargets, order, phase) ==
    [msg |-> SpawnMsg(item.ObjectId, item.ParentId, item.OwnerClientId,
                      Heap[p][item.ObjectId].Type),
     targets |-> {},
     phase |-> phase]

\* SendObjectSpawnMessage: a client rewrites the ids through the remapping
\* table; the server sends to CachedTargets, a client to the server.
SendObjectSpawnMessage(p, item, cachedTargets, order, phase) ==
    [msg |-> SpawnMsg(IF IsClient(p) THEN KeyOf(IdsRemappingTable[p], item.ObjectId, order)
                      ELSE item.ObjectId,
                      IF IsClient(p) THEN KeyOf(IdsRemappingTable[p], item.ParentId, order)
                      ELSE item.ParentId,
                      item.OwnerClientId,
                      Heap[p][item.ObjectId].Type),
     targets |-> TargetsOf(p, cachedTargets),
     phase |-> phase]

\* A catch-up that goes to every connected client.
NewClientsSendsToAll(p, objs, order) ==
    LET ids == SortedSeq({id \in DOMAIN objs : ObjectAlive(p, id) /\ objs[id].Spawned})
    IN  [i \in 1..Len(ids) |->
            SendObjectSpawnMessage(p, objs[ids[i]], Connected, order, "NewClients")]

\* A "NewClients" block that sends nothing.
NewClientsSendsNone(p, objs, order) == <<>>

\* The "NewClients" block: a spawn message per spawned live object, sent to
\* the connections of the new clients only.
NewClientsSends(p, objs, order) ==
    LET ids == SortedSeq({id \in DOMAIN objs : ObjectAlive(p, id) /\ objs[id].Spawned})
    IN  [i \in 1..Len(ids) |->
            SendObjectSpawnMessage(p, objs[ids[i]], Range(NewClients), order, "NewClients")]

\* The "DespawnQueue" block: one despawn message per queued id.
DespawnQueueSends(p, queue, cachedTargets, order) ==
    [i \in 1..Len(queue) |->
        [msg |-> DespawnMsg(IF IsClient(p) THEN KeyOf(IdsRemappingTable[p], queue[i], order)
                            ELSE queue[i]),
         targets |-> TargetsOf(p, cachedTargets),
         phase |-> "DespawnQueue"]]

\* A spawn flush that sends whatever is queued.
AlwaysOwned(p, item) == FALSE
\* The spawn flush skips an entry the local peer does not own.
NotOwned(p, item) ==
    item.OwnerClientId # LocalClientId(p) \/ item.Role # RoleOwnedAuthoritative

\* A spawn flush whose messages go out ahead of what the tick sent so far.
RECURSIVE SpawnQueueFlushFirst(_, _, _, _, _)
SpawnQueueFlushFirst(p, queue, st, cachedTargets, order) ==
    IF queue = <<>> \/ st.crashed THEN st
    ELSE LET obj == Head(queue)
             objs1 == IF obj \in DOMAIN st.objs \/ ~Online(p) THEN st.objs
                      ELSE AddObjectTo(st.objs, p, obj, GuidEmpty)
         IN  IF ~ObjectAlive(p, obj) THEN [st EXCEPT !.crashed = TRUE]
             ELSE IF obj \notin DOMAIN objs1
             THEN SpawnQueueFlushFirst(p, Tail(queue), st, cachedTargets, order)
             ELSE IF NotOwned(p, objs1[obj])
             THEN SpawnQueueFlushFirst(p, Tail(queue), [st EXCEPT !.objs = objs1],
                                       cachedTargets, order)
             ELSE SpawnQueueFlushFirst(p, Tail(queue),
                      [objs |-> [objs1 EXCEPT ![obj].Spawned = TRUE],
                       sends |-> <<SendObjectSpawnMessage(p, objs1[obj], cachedTargets,
                                                          order, "SpawnQueue")>>
                                 \o st.sends,
                       flushed |-> st.flushed \cup {obj},
                       crashed |-> FALSE],
                      cachedTargets, order)

\* The "SpawnQueue" block over the rest of the queue. st holds the registry,
\* the sends so far, the objects a spawn message was sent for, and whether
\* the loop dereferenced a null reference (a queued object deleted since it
\* was queued), which stops the process.
RECURSIVE SpawnQueueFlush(_, _, _, _, _)
SpawnQueueFlush(p, queue, st, cachedTargets, order) ==
    IF queue = <<>> \/ st.crashed THEN st
    ELSE LET obj == Head(queue)
             objs1 == IF obj \in DOMAIN st.objs \/ ~Online(p) THEN st.objs
                      ELSE AddObjectTo(st.objs, p, obj, GuidEmpty)
         IN  IF ~ObjectAlive(p, obj) THEN [st EXCEPT !.crashed = TRUE]
             ELSE IF obj \notin DOMAIN objs1
             THEN SpawnQueueFlush(p, Tail(queue), st, cachedTargets, order)
             ELSE IF NotOwned(p, objs1[obj])
             THEN SpawnQueueFlush(p, Tail(queue), [st EXCEPT !.objs = objs1],
                                  cachedTargets, order)
             ELSE SpawnQueueFlush(p, Tail(queue),
                      [objs |-> [objs1 EXCEPT ![obj].Spawned = TRUE],
                       sends |-> Append(st.sends,
                                    SendObjectSpawnMessage(p, objs1[obj], cachedTargets,
                                                           order, "SpawnQueue")),
                       flushed |-> st.flushed \cup {obj},
                       crashed |-> FALSE],
                      cachedTargets, order)

\* The server's brute-force broadcast over the registry: entries whose
\* object is gone are removed, entries that cannot be serialized are warned
\* about once and skipped, the rest are sent on the unreliable channel.
RECURSIVE Broadcast(_, _, _, _)
\* A broadcast that neither sends nor removes anything.
BroadcastNothing(p, ids, st, cachedTargets) == st

Broadcast(p, ids, st, cachedTargets) ==
    IF ids = <<>> THEN st
    ELSE LET id == Head(ids)
             r == InvokeSerializer(st.table, Heap[p][id].Type)
         IN  IF ~ObjectAlive(p, id)
             THEN Broadcast(p, Tail(ids), [st EXCEPT !.objs = Drop(@, id)], cachedTargets)
             ELSE IF r.failed
             THEN Broadcast(p, Tail(ids),
                            [st EXCEPT !.objs[id].InvalidTypeWarn = TRUE,
                                       !.warned = @ \cup (IF st.objs[id].InvalidTypeWarn
                                                          THEN {} ELSE {id})],
                            cachedTargets)
             ELSE Broadcast(p, Tail(ids),
                            [st EXCEPT !.table = r.table,
                                       !.sends = Append(@,
                                           [msg |-> ReplicateMsg(Frame + 1, id,
                                                                 st.objs[id].ParentId,
                                                                 Heap[p][id].Type),
                                            targets |-> cachedTargets,
                                            phase |-> "Replicate"])],
                            cachedTargets)

\* NetworkInternal::NetworkReplicatorUpdate as a function of the state
\* before it: the registry, queues, new-client list, serializer table and
\* the messages sent, in order.
NetworkReplicatorUpdateResult(p, order) ==
    LET unchanged == [objs |-> Objects[p], spawnQueue |-> SpawnQueue[p],
                      despawnQueue |-> DespawnQueue[p], newClients |-> NewClients,
                      table |-> SerializersTable[p], sends |-> <<>>, crashed |-> FALSE,
                      warned |-> {}, flushed |-> {}, exit |-> "empty"]
        catchUp == ~IsClient(p) /\ NewClients # <<>>
        sends1 == IF catchUp THEN NewClientsSends(p, Objects[p], order) ELSE <<>>
        newClients1 == IF catchUp THEN <<>> ELSE NewClients
        cachedTargets == Connected
        sends2 == sends1 \o DespawnQueueSends(p, DespawnQueue[p], cachedTargets, order)
        spawn == SpawnQueueFlush(p, SpawnQueue[p],
                                 [objs |-> Objects[p], sends |-> sends2, flushed |-> {},
                                  crashed |-> FALSE],
                                 cachedTargets, order)
        cast == IF IsClient(p)
                THEN [objs |-> spawn.objs, table |-> SerializersTable[p],
                      sends |-> spawn.sends, warned |-> {}]
                ELSE Broadcast(p, SortedSeq(DOMAIN spawn.objs),
                               [objs |-> spawn.objs, table |-> SerializersTable[p],
                                sends |-> spawn.sends, warned |-> {}],
                               cachedTargets)
    IN  IF DOMAIN Objects[p] = {} THEN unchanged
        ELSE IF ~IsClient(p) /\ cachedTargets = {}
        THEN [unchanged EXCEPT !.sends = sends1, !.newClients = newClients1,
                               !.exit = "notargets"]
        ELSE IF spawn.crashed
        THEN [objs |-> spawn.objs, spawnQueue |-> SpawnQueue[p], despawnQueue |-> <<>>,
              newClients |-> newClients1, table |-> SerializersTable[p],
              sends |-> spawn.sends, crashed |-> TRUE, warned |-> {},
              flushed |-> spawn.flushed, exit |-> "crash"]
        ELSE [objs |-> cast.objs, spawnQueue |-> <<>>, despawnQueue |-> <<>>,
              newClients |-> newClients1, table |-> cast.table, sends |-> cast.sends,
              crashed |-> FALSE, warned |-> cast.warned, flushed |-> spawn.flushed,
              exit |-> "done"]

\* One network tick of peer p: the network manager advances the server's
\* frame and runs NetworkReplicatorUpdate under the objects lock.
NetworkReplicatorUpdate(p, order) ==
    /\ p \notin Stopped
    /\ Online(p)
    /\ ~IsClient(p) => Frame < MaxFrame
    /\ LET r == NetworkReplicatorUpdateResult(p, order)
           flushedSpawns == r.flushed
           flushedDespawns == IF r.exit \in {"done", "crash"}
                              THEN Range(DespawnQueue[p]) ELSE {}
       IN  /\ Objects' = [Objects EXCEPT ![p] = r.objs]
           /\ SpawnQueue' = [SpawnQueue EXCEPT ![p] = r.spawnQueue]
           /\ DespawnQueue' = [DespawnQueue EXCEPT ![p] = r.despawnQueue]
           /\ NewClients' = r.newClients
           /\ SerializersTable' = [SerializersTable EXCEPT ![p] = r.table]
           /\ Reliable' = SendAll(Reliable, p, r.sends)
           /\ Unreliable' = SendAllUnreliable(Unreliable, r.sends)
           /\ ChanOk(Reliable')
           /\ Stopped' = IF r.crashed THEN Stopped \cup {p} ELSE Stopped
           /\ SpawnCount' = [SpawnCount EXCEPT ![p] =
                                [id \in AllGuids |-> IF id \in flushedSpawns
                                                     THEN SpawnCount[p][id] + 1
                                                     ELSE SpawnCount[p][id]]]
           /\ DespawnCount' = [DespawnCount EXCEPT ![p] =
                                  [id \in AllGuids |-> IF id \in flushedDespawns
                                                       THEN DespawnCount[p][id] + 1
                                                       ELSE DespawnCount[p][id]]]
           /\ Last' = Sent("Update", p, GuidEmpty, NullClient,
                           IF IsClient(p) THEN 0 ELSE Frame + 1, r.exit, r.sends)
    /\ Frame' = IF IsClient(p) THEN Frame ELSE Frame + 1
    /\ UNCHANGED <<Heap, NextGuid, IdsRemappingTable, Connected>>
    /\ UNCHANGED <<typeVars, DespawnCalls, HighestAccepted, Despawned>>
    /\ UNCHANGED Locking
    /\ SpawnSent' = IF IsClient(p) THEN SpawnSent
                    ELSE LET sends == NetworkReplicatorUpdateResult(p, order).sends
                         IN  [c \in Clients |-> SpawnSent[c] \cup
                                {sends[i].msg.ObjectId : i \in
                                    {j \in 1..Len(sends) : /\ sends[j].msg.kind = "Spawn"
                                                           /\ c \in sends[j].targets}}]

\* ------------------------------------------------------ inbound handlers
\* A context scan that takes entries whatever their sequence.
AnySequence(item) == TRUE
\* The context scan takes only entries no state update or ownership change
\* has touched.
Untouched(item) == item.LastOwnerFrame = 0

\* ResolveObject(Guid, Guid, char[128]): the entry found (or NullEntry), the
\* remapping table afterwards, and whether Dictionary::Add met a key that
\* is already in the table (its assertion stops the process).
ResolveObjectContext(p, objectId, parentId, objectTypeName, order) ==
    LET objs == Objects[p]
        table == IdsRemappingTable[p]
        direct == ResolveObject(objs, table, objectId)
        parent == TryGet(table, parentId)
        matches == {id \in DOMAIN objs :
                       /\ Untouched(objs[id])
                       /\ objs[id].ParentId = parent
                       /\ ObjectAlive(p, id)
                       /\ Heap[p][id].Type = objectTypeName}
        first == IF order = "asc" THEN MinOf(matches) ELSE MaxOf(matches)
    IN  IF direct # NullEntry THEN [e |-> direct, table |-> table, crashed |-> FALSE]
        ELSE IF objectTypeName = NullType \/ matches = {}
        THEN [e |-> NullEntry, table |-> table, crashed |-> FALSE]
        ELSE IF objectId \in DOMAIN table
        THEN [e |-> NullEntry, table |-> table, crashed |-> TRUE]
        ELSE [e |-> first, table |-> Put(table, objectId, first), crashed |-> FALSE]

\* What a handler leaves behind when it changes nothing.
Unchanged(p, res) ==
    [objs |-> Objects[p], heap |-> Heap[p], table |-> IdsRemappingTable[p],
     ser |-> SerializersTable[p], created |-> 0, sends |-> <<>>, crashed |-> FALSE,
     accepted |-> HighestAccepted[p], warned |-> {}, res |-> res]

\* A handler without the authority check.
OwnerUnchecked(client, item) == FALSE
\* The handlers' authority check: the message came from a client that is
\* not the entry's owner. A client's messages come with no sender.
NotOwner(client, item) == client # NullClient /\ item.OwnerClientId # client

\* A handler that takes an update of any sequence.
NeverStale(item, msgData) == FALSE
\* The sequence check of the state update handler.
IsStale(item, msgData) == item.LastOwnerFrame >= msgData.OwnerFrame

\* A handler that logs every failed deserialization.
WarnsAlways(item, failed, e) == IF failed THEN {e} ELSE {}
\* The entries the state update handler logs the missing serializer of: the
\* entry whose deserialization failed, unless it has been warned about.
WarnsAbout(item, failed, e) == IF failed /\ ~item.InvalidTypeWarn THEN {e} ELSE {}

\* A handler that takes updates of the objects the peer owns.
OwnsNothing(item) == FALSE
\* The state update handler skips the objects the peer owns.
OwnedLocally(item) == item.Role = RoleOwnedAuthoritative

\* NetworkInternal::OnNetworkMessageObjectReplicate
OnNetworkMessageObjectReplicate(p, client, msgData, order) ==
    LET rs == ResolveObjectContext(p, msgData.ObjectId, msgData.ParentId,
                                   msgData.ObjectTypeName, order)
        base == [Unchanged(p, "unresolved") EXCEPT !.table = rs.table]
        item == Objects[p][rs.e]
        r == InvokeSerializer(SerializersTable[p], Heap[p][rs.e].Type)
    IN  IF rs.crashed THEN [base EXCEPT !.crashed = TRUE, !.res = "assert"]
        ELSE IF rs.e = NullEntry THEN base
        ELSE IF ~ObjectAlive(p, rs.e) THEN [base EXCEPT !.res = "dead"]
        ELSE IF NotOwner(client, item) THEN [base EXCEPT !.res = "notowner"]
        ELSE IF OwnedLocally(item) THEN [base EXCEPT !.res = "owned"]
        ELSE IF IsStale(item, msgData) THEN [base EXCEPT !.res = "stale"]
        ELSE [base EXCEPT
                 !.objs = [@ EXCEPT ![rs.e].LastOwnerFrame = msgData.OwnerFrame,
                                    ![rs.e].InvalidTypeWarn = (@ \/ r.failed)],
                 !.heap = IF r.failed THEN @
                          ELSE [@ EXCEPT ![rs.e].State = msgData.OwnerFrame],
                 !.ser = r.table,
                 !.warned = WarnsAbout(item, r.failed, rs.e),
                 !.accepted = [@ EXCEPT ![rs.e] = IF @ > msgData.OwnerFrame THEN @
                                                  ELSE msgData.OwnerFrame],
                 !.res = IF r.failed THEN "unserializable" ELSE "applied"]

\* The Guid of the next object the process creates.
FreshGuid(p) == PoolBase(p) + 1 + NextGuid[p] + 1

\* A spawn handler that keeps the owner it has recorded.
SpawnResolvedKeepsOwner(p, item, msgData) == [item EXCEPT !.Spawned = TRUE]
\* The entry a spawn message resolved to, after the handler: a client takes
\* the owner the server names and gives up the authority it held.
SpawnResolved(p, item, msgData) ==
    IF IsClient(p)
    THEN [item EXCEPT !.Spawned = TRUE,
                      !.OwnerClientId = msgData.OwnerClientId,
                      !.Role = IF @ = RoleOwnedAuthoritative
                               THEN RoleReplicated ELSE @]
    ELSE [item EXCEPT !.Spawned = TRUE]

\* NetworkInternal::OnNetworkMessageObjectSpawn for a message without a
\* prefab link.
OnNetworkMessageObjectSpawn(p, client, msgData, order) ==
    LET rs == ResolveObjectContext(p, msgData.ObjectId, msgData.ParentId,
                                   msgData.ObjectTypeName, order)
        base == [Unchanged(p, "failed") EXCEPT !.table = rs.table]
        item == Objects[p][rs.e]
        parent == ResolveObject(Objects[p], IdsRemappingTable[p], msgData.ParentId)
        obj == FreshGuid(p)
        created == NewItem(obj, IF parent # NullEntry THEN parent ELSE GuidEmpty,
                           IF client # NullClient THEN client ELSE ServerClientId,
                           RoleReplicated, TRUE)
    IN  IF rs.crashed THEN [base EXCEPT !.crashed = TRUE, !.res = "assert"]
        ELSE IF rs.e # NullEntry
        THEN [base EXCEPT
                 !.objs = [@ EXCEPT ![rs.e] = SpawnResolved(p, item, msgData)],
                 !.res = "resolved"]
        ELSE IF msgData.ObjectTypeName = NullType THEN base
        ELSE [base EXCEPT
                 !.objs = Put(@, obj, created),
                 !.heap = Put(@, obj, [Type |-> msgData.ObjectTypeName,
                                       Parent |-> IF parent # NullEntry /\ ObjectAlive(p, parent)
                                                  THEN parent
                                                  ELSE IF ObjectAlive(p, msgData.ParentId)
                                                  THEN msgData.ParentId ELSE GuidEmpty,
                                       State |-> 0]),
                 !.created = 1,
                 !.table = IF msgData.ObjectId \in DOMAIN rs.table THEN rs.table
                           ELSE Put(rs.table, msgData.ObjectId, obj),
                 !.crashed = (msgData.ObjectId \in DOMAIN rs.table),
                 !.res = IF msgData.ObjectId \in DOMAIN rs.table THEN "assert" ELSE "created"]

\* NetworkInternal::OnNetworkMessageObjectDespawn
OnNetworkMessageObjectDespawn(p, client, msgData, order) ==
    LET e == ResolveObject(Objects[p], IdsRemappingTable[p], msgData.ObjectId)
        item == Objects[p][e]
    IN  IF e = NullEntry THEN Unchanged(p, "unresolved")
        ELSE IF ~ObjectAlive(p, e) \/ ~item.Spawned THEN Unchanged(p, "dead")
        ELSE IF NotOwner(client, item) THEN Unchanged(p, "notowner")
        ELSE [Unchanged(p, "despawned") EXCEPT
                 !.objs = Drop(@, e),
                 !.heap = DeleteNetworkObject(@, e)]

\* A role handler that treats every new owner as a remote peer.
RoleUpdateAsRemote(p, item, ownerClientId) ==
    [item EXCEPT !.OwnerClientId = ownerClientId, !.LastOwnerFrame = 1,
                 !.Role = IF @ = RoleOwnedAuthoritative THEN RoleReplicated ELSE @]

\* A role handler that leaves the sequence number of the entry alone.
RoleUpdateKeepsFrame(p, item, ownerClientId) ==
    IF ownerClientId = LocalClientId(p)
    THEN [item EXCEPT !.OwnerClientId = ownerClientId, !.Role = RoleOwnedAuthoritative]
    ELSE [item EXCEPT !.OwnerClientId = ownerClientId,
                      !.Role = IF @ = RoleOwnedAuthoritative THEN RoleReplicated ELSE @]

\* The entry after an accepted NetworkMessageObjectRole.
RoleUpdate(p, item, ownerClientId) ==
    IF ownerClientId = LocalClientId(p)
    THEN [item EXCEPT !.OwnerClientId = ownerClientId, !.LastOwnerFrame = 0,
                      !.Role = RoleOwnedAuthoritative]
    ELSE [item EXCEPT !.OwnerClientId = ownerClientId, !.LastOwnerFrame = 1,
                      !.Role = IF @ = RoleOwnedAuthoritative THEN RoleReplicated ELSE @]

\* NetworkInternal::OnNetworkMessageObjectRole
OnNetworkMessageObjectRole(p, client, msgData, order) ==
    LET e == ResolveObject(Objects[p], IdsRemappingTable[p], msgData.ObjectId)
        item == Objects[p][e]
        after == RoleUpdate(p, item, msgData.OwnerClientId)
    IN  IF e = NullEntry THEN Unchanged(p, "unresolved")
        ELSE IF ~ObjectAlive(p, e) THEN Unchanged(p, "dead")
        ELSE IF NotOwner(client, item) THEN Unchanged(p, "notowner")
        ELSE [Unchanged(p, "accepted") EXCEPT
                 !.objs = [@ EXCEPT ![e] = after],
                 !.accepted = [@ EXCEPT ![e] = 0],
                 !.sends = IF IsClient(p) THEN <<>>
                           ELSE <<SendObjectRoleMessage(p, after, client)>>]

\* The handler the network manager calls for a message of each kind.
Handle(p, client, msgData, order) ==
    CASE msgData.kind = "Replicate" -> OnNetworkMessageObjectReplicate(p, client, msgData, order)
      [] msgData.kind = "Spawn" -> OnNetworkMessageObjectSpawn(p, client, msgData, order)
      [] msgData.kind = "Despawn" -> OnNetworkMessageObjectDespawn(p, client, msgData, order)
      [] msgData.kind = "Role" -> OnNetworkMessageObjectRole(p, client, msgData, order)

\* The state after peer p handled msgData from client, the transport being
\* left with rel and unrel once the message is taken off it.
Handled(p, client, msgData, order, rel, unrel) ==
    LET r == Handle(p, client, msgData, order)
    IN  /\ p \notin Stopped
        /\ Online(p)
        /\ r.created = 1 => NextGuid[p] < MaxNew
        /\ Objects' = [Objects EXCEPT ![p] = r.objs]
        /\ Heap' = [Heap EXCEPT ![p] = r.heap]
        /\ NextGuid' = [NextGuid EXCEPT ![p] = @ + r.created]
        /\ IdsRemappingTable' = [IdsRemappingTable EXCEPT ![p] = r.table]
        /\ SerializersTable' = [SerializersTable EXCEPT ![p] = r.ser]
        /\ Reliable' = SendAll(rel, p, r.sends)
        /\ Unreliable' = unrel
        /\ ChanOk(Reliable')
        /\ Stopped' = IF r.crashed THEN Stopped \cup {p} ELSE Stopped
        /\ HighestAccepted' = [HighestAccepted EXCEPT ![p] = r.accepted]
        /\ Last' = Sent(msgData.kind, p, msgData.ObjectId, client, msgData.OwnerFrame,
                        r.res, r.sends)
        /\ UNCHANGED <<SpawnQueue, DespawnQueue, NewClients, Connected, Frame>>
        /\ UNCHANGED <<typeVars, SpawnCount, DespawnCount, DespawnCalls>>

\* The sender the network manager attaches to a message: the client it came
\* from on the server, none on a client (whose only remote peer is the server).
SenderOf(from, to) == IF IsClient(to) THEN NullClient ELSE from

\* The head of a reliable ordered channel reaches its peer.
DeliverReliable(from, to, kind, order) ==
    /\ Reliable[<<from, to>>] # <<>>
    /\ Head(Reliable[<<from, to>>]).kind = kind
    /\ Handled(to, SenderOf(from, to), Head(Reliable[<<from, to>>]), order,
               [Reliable EXCEPT ![<<from, to>>] = Tail(@)], Unreliable)
    /\ Despawned' = IF kind = "Despawn"
                    THEN [Despawned EXCEPT ![to] = @ \cup {Head(Reliable[<<from, to>>]).ObjectId}]
                    ELSE Despawned
    /\ UNCHANGED <<SpawnSent, Locking>>

DeliverSpawn(from, to, order) == DeliverReliable(from, to, "Spawn", order)
DeliverDespawn(from, to, order) == DeliverReliable(from, to, "Despawn", order)
DeliverRole(from, to, order) == DeliverReliable(from, to, "Role", order)

\* Any state update in flight reaches its client, in any order; one that is
\* never taken is a lost one.
DeliverReplicate(c, msgData, order) ==
    /\ msgData \in Unreliable[c]
    /\ Handled(c, NullClient, msgData, order, Reliable,
               [Unreliable EXCEPT ![c] = @ \ {msgData}])
    /\ UNCHANGED <<Despawned, SpawnSent, Locking>>

\* --------------------------------------------------------- specification
\* A run is a bounded number of operations of the replicators that run. A
\* connection is one on the server (NetworkReplicatorClientConnected); on a
\* client it is the network manager's own change of state.
Budget == Steps < MaxSteps /\ Steps' = Steps + 1
ConnectBudget == IF ServerClientId \in Stopped THEN UNCHANGED Steps ELSE Budget

\* The explicit parents a caller passes to AddObject: none, which takes the
\* structural parent.
ParentArgs == {GuidEmpty}
\* The owners a caller passes to SetObjectOwnership: the server or a client.
OwnerArgs == Peers

\* The live objects of the game: each process holds the objects of ids.
GameObjects(ids) ==
    [id \in ids |-> [Type |-> InitialType(id), Parent |-> InitialParent(id), State |-> 0]]

InitReplicator ==
    /\ Objects = [p \in Peers |-> EmptyMap]
    /\ NextGuid = [p \in Peers |-> 0]
    /\ SpawnQueue = [p \in Peers |-> <<>>]
    /\ DespawnQueue = [p \in Peers |-> <<>>]
    /\ IdsRemappingTable = [p \in Peers |-> EmptyMap]
    /\ NewClients = <<>>
    /\ Connected = {}
    /\ Frame = 0
    /\ Reliable = [k \in Channels |-> <<>>]
    /\ Unreliable = [c \in Clients |-> {}]
    /\ Last = NoOp("Init", ServerClientId, GuidEmpty)
    /\ SpawnCount = [p \in Peers |-> [id \in AllGuids |-> 0]]
    /\ DespawnCount = [p \in Peers |-> [id \in AllGuids |-> 0]]
    /\ DespawnCalls = [p \in Peers |-> [id \in AllGuids |-> "none"]]
    /\ HighestAccepted = [p \in Peers |-> [id \in AllGuids |-> 0]]
    /\ Despawned = [p \in Peers |-> {}]
    /\ SpawnSent = [c \in Clients |-> {}]
    /\ Locking = LockFree
    /\ Steps = 0

\* The session: every peer registered a serializer for the scene type, the
\* type of the dynamic objects derives from it.
InitTypes ==
    /\ TypeBase = [t \in Types |-> IF t = 2 THEN 1 ELSE NullType]
    /\ TypeInterface = {}
    /\ SerializersTable = [p \in Peers |-> [t \in {1} |-> "explicit"]]

\* Every peer runs.
Init ==
    /\ InitReplicator
    /\ InitTypes
    /\ Heap = [p \in Peers |-> GameObjects({SceneId})]
    /\ Stopped = {}

Next ==
    \/ Budget /\ \E p \in Peers : \E obj \in ObjectArgs(p) : \E parent \in ParentArgs :
          AddObject(p, obj, parent)
    \/ Budget /\ \E p \in Peers : \E obj \in ObjectArgs(p) : SpawnObject(p, obj)
    \/ Budget /\ \E p \in Peers : \E obj \in ObjectArgs(p) : DespawnObject(p, obj)
    \/ Budget /\ \E p \in Peers : \E obj \in ObjectArgs(p) : \E owner \in OwnerArgs : \E role \in Roles :
          SetObjectOwnership(p, obj, owner, role)
    \/ ConnectBudget /\ \E c \in Clients : NetworkReplicatorClientConnected(c)
    \/ Budget /\ \E p \in Peers : \E order \in OrdersAt(p) : NetworkReplicatorUpdate(p, order)
    \/ Budget /\ \E k \in Channels : \E order \in OrdersAt(k[2]) : DeliverSpawn(k[1], k[2], order)
    \/ Budget /\ \E k \in Channels : \E order \in OrdersAt(k[2]) : DeliverDespawn(k[1], k[2], order)
    \/ Budget /\ \E k \in Channels : \E order \in OrdersAt(k[2]) : DeliverRole(k[1], k[2], order)
    \/ Budget /\ \E c \in Clients : \E msgData \in Unreliable[c] : \E order \in OrdersAt(c) :
          DeliverReplicate(c, msgData, order)

Spec == Init /\ [][Next]_vars

\* ------------------------------------------- one peer and its transport
\* The messages the transport can hand to peer p: any well-formed message
\* about an entry it tracks or about an id of another process.
MsgIds(p) == DOMAIN Objects[p] \cup ForeignIds(p)
MsgParents == {GuidEmpty, ServerObjectId}
MsgTypes == {2, 3}
MsgFrames == 1..MaxFrame
MsgOwners == {ServerClientId, 1}
\* The parent and type a message carries are read only by the context
\* resolution, which runs when the id is not an entry's: a message about an
\* entry's own id is taken with one parent and type.
MsgContext(p, i) ==
    IF i \in DOMAIN Objects[p] THEN {<<GuidEmpty, 2>>} ELSE MsgParents \X MsgTypes
Messages(p, kind) ==
    CASE kind = "Spawn" ->
            {SpawnMsg(i, c[1], o, c[2]) : <<i, c>> \in
                {<<i, c>> \in MsgIds(p) \X (MsgParents \X MsgTypes) : c \in MsgContext(p, i)},
             o \in MsgOwners}
      [] kind = "Despawn" -> {DespawnMsg(i) : i \in MsgIds(p)}
      [] kind = "Role" -> {RoleMsg(i, o) : i \in MsgIds(p), o \in MsgOwners}
      [] kind = "Replicate" ->
            {ReplicateMsg(f, i, c[1], c[2]) : <<i, c>> \in
                {<<i, c>> \in MsgIds(p) \X (MsgParents \X MsgTypes) : c \in MsgContext(p, i)},
             f \in MsgFrames}

\* The senders the network manager can attach on peer p: none on a client; on
\* the server a connected client that speaks (the others only listen).
Speakers == {1}
Senders(p) == IF IsClient(p) THEN {NullClient} ELSE Connected \cap Speakers

\* Peer p handles a message of the given kind that the transport hands it.
Receive(p, kind) ==
    \E client \in Senders(p) : \E msgData \in Messages(p, kind) : \E order \in OrdersAt(p) :
        Handled(p, client, msgData, order, Reliable, Unreliable) /\ UNCHANGED <<Despawned, SpawnSent, Locking>>

ReceiveSpawn(p) == Receive(p, "Spawn")
ReceiveDespawn(p) == Receive(p, "Despawn")
ReceiveRole(p) == Receive(p, "Role")
ReceiveReplicate(p) == Receive(p, "Replicate")

\* One process of the session runs, the server or a client; the others are
\* the remote ends of its transport.
InitPeer(p) ==
    /\ InitReplicator
    /\ InitTypes
    /\ Heap = [q \in Peers |-> GameObjects(LocalIds(q))]
    /\ Stopped = Peers \ {p}

InitServer == InitPeer(ServerClientId)
InitClient == InitPeer(1)

NextPeer ==
    \/ Budget /\ \E p \in Peers : \E obj \in ObjectArgs(p) : \E parent \in ParentArgs :
          AddObject(p, obj, parent)
    \/ Budget /\ \E p \in Peers : \E obj \in ObjectArgs(p) : SpawnObject(p, obj)
    \/ Budget /\ \E p \in Peers : \E obj \in ObjectArgs(p) : DespawnObject(p, obj)
    \/ Budget /\ \E p \in Peers : \E obj \in ObjectArgs(p) : \E owner \in OwnerArgs : \E role \in Roles :
          SetObjectOwnership(p, obj, owner, role)
    \/ ConnectBudget /\ \E c \in Clients : NetworkReplicatorClientConnected(c)
    \/ Budget /\ \E p \in Peers : \E order \in OrdersAt(p) : NetworkReplicatorUpdate(p, order)
    \/ Budget /\ \E p \in Peers : ReceiveSpawn(p)
    \/ Budget /\ \E p \in Peers : ReceiveDespawn(p)
    \/ Budget /\ \E p \in Peers : ReceiveRole(p)
    \/ Budget /\ \E p \in Peers : ReceiveReplicate(p)

InitEither == InitServer \/ InitClient

SpecServer == InitServer /\ [][NextPeer]_vars
SpecClient == InitClient /\ [][NextPeer]_vars
SpecPeer == InitEither /\ [][NextPeer]_vars

\* ------------------------------------------------- a running session
\* The server in the middle of a session: it added two of its objects,
\* asked for the first to be spawned, client 1 connected, and one tick ran,
\* which sent the first object's Spawn message and left its entry spawned.
\* The run goes on for SessionSteps operations.
SessionIds == {ServerObjectId, SecondObjectId}

InitSession ==
    /\ InitTypes
    /\ Objects = [p \in Peers |->
                     IF IsClient(p) THEN EmptyMap
                     ELSE [id \in SessionIds |->
                              NewItem(id, GuidEmpty, ServerClientId, RoleOwnedAuthoritative,
                                      id = ServerObjectId)]]
    /\ Heap = [p \in Peers |-> GameObjects(IF IsClient(p) THEN LocalIds(p) ELSE SessionIds)]
    /\ NextGuid = [p \in Peers |-> 0]
    /\ SpawnQueue = [p \in Peers |-> <<>>]
    /\ DespawnQueue = [p \in Peers |-> <<>>]
    /\ IdsRemappingTable = [p \in Peers |-> EmptyMap]
    /\ NewClients = <<>>
    /\ Connected = {1}
    /\ Frame = 1
    /\ Reliable = [k \in Channels |-> <<>>]
    /\ Unreliable = [c \in Clients |-> {}]
    /\ Stopped = Peers \ {ServerClientId}
    /\ Last = NoOp("Init", ServerClientId, GuidEmpty)
    /\ SpawnCount = [p \in Peers |-> [id \in AllGuids |->
                        IF p = ServerClientId /\ id = ServerObjectId THEN 1 ELSE 0]]
    /\ DespawnCount = [p \in Peers |-> [id \in AllGuids |-> 0]]
    /\ DespawnCalls = [p \in Peers |-> [id \in AllGuids |-> "none"]]
    /\ HighestAccepted = [p \in Peers |-> [id \in AllGuids |-> 0]]
    /\ Despawned = [p \in Peers |-> {}]
    /\ SpawnSent = [c \in Clients |-> IF c = 1 THEN {ServerObjectId} ELSE {}]
    /\ Locking = LockFree
    /\ Steps = MaxSteps - SessionSteps

SpecSession == InitSession /\ [][NextPeer]_vars

\* The same session seen from both ends, client 1 running too: the first
\* object's Spawn message is on its way to client 1 (the state updates of
\* the tick were lost), the server's game has since called DespawnObject on
\* the first object, and may have called SpawnObject on the second.
InitWire ==
    /\ InitTypes
    /\ Objects = [p \in Peers |->
                     IF IsClient(p) THEN EmptyMap
                     ELSE [id \in SessionIds |->
                              NewItem(id, GuidEmpty, ServerClientId, RoleOwnedAuthoritative,
                                      id = ServerObjectId)]]
    /\ Heap = [p \in Peers |-> GameObjects(IF IsClient(p) THEN LocalIds(p)
                                            ELSE {SecondObjectId})]
    /\ NextGuid = [p \in Peers |-> 0]
    /\ SpawnQueue \in {[p \in Peers |-> IF IsClient(p) THEN <<>> ELSE q] :
                          q \in {<<>>, <<SecondObjectId>>}}
    /\ DespawnQueue = [p \in Peers |-> IF IsClient(p) THEN <<>> ELSE <<ServerObjectId>>]
    /\ IdsRemappingTable = [p \in Peers |-> EmptyMap]
    /\ NewClients = <<>>
    /\ Connected = {1}
    /\ Frame = 1
    /\ Reliable = [k \in Channels |->
                      IF k = <<ServerClientId, 1>>
                      THEN <<SpawnMsg(ServerObjectId, GuidEmpty, ServerClientId,
                                      InitialType(ServerObjectId))>>
                      ELSE <<>>]
    /\ Unreliable = [c \in Clients |-> {}]
    /\ Stopped = Peers \ {ServerClientId, 1}
    /\ Last = NoOp("Init", ServerClientId, GuidEmpty)
    /\ SpawnCount = [p \in Peers |-> [id \in AllGuids |->
                        IF p = ServerClientId /\ id = ServerObjectId THEN 1 ELSE 0]]
    /\ DespawnCount = [p \in Peers |-> [id \in AllGuids |-> 0]]
    /\ DespawnCalls = [p \in Peers |-> [id \in AllGuids |-> "none"]]
    /\ HighestAccepted = [p \in Peers |-> [id \in AllGuids |-> 0]]
    /\ Despawned = [p \in Peers |-> {}]
    /\ SpawnSent = [c \in Clients |-> IF c = 1 THEN {ServerObjectId} ELSE {}]
    /\ Locking = LockFree
    /\ Steps = 0

SpecWire == InitWire /\ [][Next]_vars

\* ------------------------------------------------- the serializer table
\* The type handles a caller passes: a type, or none.
TypeArgs == Types \cup {NullType}

\* NetworkReplicator::AddSerializer on peer p.
AddSerializer(p, typeHandle) ==
    /\ p \notin Stopped
    /\ SerializersTable' = [SerializersTable EXCEPT ![p] = AddSerializerTo(@, typeHandle)]
    /\ Last' = Event("AddSerializer", p, typeHandle, NullClient, 0,
                     IF typeHandle = NullType THEN "noop" ELSE "registered")
    /\ UNCHANGED <<Objects, Heap, NextGuid, SpawnQueue, DespawnQueue, IdsRemappingTable,
                   NewClients, Connected, Frame, Stopped, Steps>>
    /\ UNCHANGED <<netVars, typeVars, histVars, Locking>>

\* A call of NetworkReplicator::InvokeSerializer on peer p, with an instance
\* and a stream: the call leaves the table with the interface entry it cached.
InvokeSerializerCall(p, typeHandle) ==
    /\ p \notin Stopped
    /\ LET r == InvokeSerializer(SerializersTable[p], typeHandle)
       IN  /\ SerializersTable' = [SerializersTable EXCEPT ![p] = r.table]
           /\ Last' = [op |-> "InvokeSerializer", res |-> r.via, sends |-> <<>>,
                       type |-> typeHandle, at |-> r.at, failed |-> r.failed]
    /\ UNCHANGED <<Objects, Heap, NextGuid, SpawnQueue, DespawnQueue, IdsRemappingTable,
                   NewClients, Connected, Frame, Stopped, Steps>>
    /\ UNCHANGED <<netVars, typeVars, histVars, Locking>>

\* Any type system and any table of explicit registrations: a type derives
\* from at most one type declared before it, and any type may implement
\* INetworkSerializable.
InitSerializer ==
    /\ InitReplicator
    /\ Heap = [p \in Peers |-> EmptyMap]
    /\ Stopped = Peers \ {ServerClientId}
    /\ TypeBase \in {f \in [Types -> Types \cup {NullType}] : \A t \in Types : f[t] < t}
    /\ TypeInterface \in SUBSET Types
    /\ \E S \in SUBSET Types : SerializersTable = [p \in Peers |-> [t \in S |-> "explicit"]]

NextSerializer ==
    \/ \E p \in Peers : \E t \in TypeArgs : AddSerializer(p, t)
    \/ \E p \in Peers : \E t \in TypeArgs : InvokeSerializerCall(p, t)

SpecSerializer == InitSerializer /\ [][NextSerializer]_vars

\* ------------------------------------------------------------ properties
\* C1: the spawn flush of a peer sends at most one Spawn message for an
\* object, and SpawnObject on an entry that is already spawned changes
\* neither the spawn queue nor the registry.
SpawnedEntry(p, obj) == obj \in DOMAIN Objects[p] /\ Objects[p][obj].Spawned

IdempotentSpawn ==
    /\ [](\A p \in Peers : \A id \in AllGuids : SpawnCount[p][id] <= 1)
    /\ [][\A p \in Peers : \A obj \in AllGuids :
             (SpawnedEntry(p, obj) /\ obj \in ObjectArgs(p) /\ SpawnObject(p, obj))
                => (SpawnQueue' = SpawnQueue /\ Objects' = Objects)]_vars

\* A peer called SpawnObject on an object its flush had sent a Spawn message for.
IdempotentSpawnWitness ==
    /\ Last.op = "SpawnObject" /\ Last.res = "spawned"
    /\ \E p \in Peers \ Stopped : \E id \in DOMAIN Objects[p] :
          SpawnCount[p][id] = 1 /\ Objects[p][id].Spawned

\* C2: once DespawnObject was called on the owning peer for an object whose
\* spawn intent was pending, no Spawn message is sent for the object, the
\* object is destroyed from the call on, and exactly one Despawn message is
\* queued or sent for it.
DespawnCancelsPendingSpawn ==
    \A p \in Peers : \A obj \in AllGuids :
        DespawnCalls[p][obj] # "none" =>
            /\ SpawnCount[p][obj] = 0
            /\ ~InSeq(SpawnQueue[p], obj)
            /\ obj \notin DOMAIN Heap[p]
            /\ DespawnCount[p][obj] + (IF InSeq(DespawnQueue[p], obj) THEN 1 ELSE 0) = 1

\* C3: an entry's LastOwnerFrame is the highest sequence accepted since its
\* owner last changed; a state update moves it only to a sequence above every
\* accepted one, and an update of a sequence not above it changes nothing.
HandledReplicate(p, msgData, order) ==
    \E client \in Senders(p) : Handled(p, client, msgData, order, Reliable, Unreliable)

ReplicateTarget(p, msgData, order) ==
    ResolveObjectContext(p, msgData.ObjectId, msgData.ParentId,
                         msgData.ObjectTypeName, order).e

StaleRejection ==
    /\ [](\A p \in Peers : \A id \in DOMAIN Objects[p] :
             HighestAccepted[p][id] # 0 =>
                 Objects[p][id].LastOwnerFrame = HighestAccepted[p][id])
    /\ [][\A p \in Peers \ Stopped : Last'.op = "Replicate" =>
             \A msgData \in Messages(p, "Replicate") : \A order \in Orders :
                 LET e == ReplicateTarget(p, msgData, order)
                 IN  (e # NullEntry /\ HandledReplicate(p, msgData, order)) =>
                        /\ Objects'[p][e].LastOwnerFrame # Objects[p][e].LastOwnerFrame =>
                              /\ msgData.OwnerFrame > HighestAccepted[p][e]
                              /\ msgData.OwnerFrame > Objects[p][e].LastOwnerFrame
                              /\ Objects'[p][e].LastOwnerFrame = msgData.OwnerFrame
                        /\ msgData.OwnerFrame <= Objects[p][e].LastOwnerFrame =>
                              (Objects'[p] = Objects[p] /\ Heap'[p] = Heap[p])]_vars

\* A client rejected a stale update for an entry that had accepted sequence 2.
StaleRejectionWitness ==
    /\ Last.op = "Replicate" /\ Last.res = "stale"
    /\ \E p \in Clients \ Stopped : \E id \in DOMAIN Objects[p] :
          HighestAccepted[p][id] = 2 /\ Objects[p][id].LastOwnerFrame = 2

\* C4 as stated: on every peer, a state update, despawn or role message from
\* a sender that is not the entry's owner leaves the registry and the
\* objects unchanged. On a client the sender of every message is the server.
AuthorityKinds == {"Replicate", "Despawn", "Role"}
SenderId(client) == IF client = NullClient THEN ServerClientId ELSE client
MessageTarget(p, msgData, order) ==
    IF msgData.kind = "Replicate" THEN ReplicateTarget(p, msgData, order)
    ELSE ResolveObject(Objects[p], IdsRemappingTable[p], msgData.ObjectId)

RejectsOthers(peers) ==
    \A p \in peers \ Stopped : \A kind \in AuthorityKinds : Last'.op = kind =>
        \A client \in Senders(p) : \A msgData \in Messages(p, kind) : \A order \in Orders :
            LET e == MessageTarget(p, msgData, order)
            IN  (/\ e # NullEntry
                 /\ Objects[p][e].OwnerClientId # SenderId(client)
                 /\ Handled(p, client, msgData, order, Reliable, Unreliable))
                    => (Objects'[p] = Objects[p] /\ Heap'[p] = Heap[p])

AuthorityRejection == [][RejectsOthers(Peers)]_vars

\* C4, amended: the server leaves the registry and the objects unchanged when
\* it handles a state update, despawn or role message from a client that is
\* not the entry's owner.
AuthorityRejectionServer == [][RejectsOthers({ServerClientId})]_vars

\* The server rejected a message of a client that does not own the entry.
AuthorityRejectionWitness ==
    /\ ServerClientId \notin Stopped
    /\ Last.op \in AuthorityKinds /\ Last.res = "notowner"
    /\ DOMAIN Objects[ServerClientId] # {}

\* C5: SetObjectOwnership(obj, B, Replicated) by the owning client A makes B
\* the owner of A's entry and sends one role message to the server; the
\* server, taking a role message from the owner, records the new owner and
\* sends it on to the other connected clients; client B, taking it, has role
\* OwnedAuthoritative, owner B and LastOwnerFrame 0.
RoleSend(id, owner, targets) ==
    <<[msg |-> RoleMsg(id, owner), targets |-> targets, phase |-> "Role"]>>

OwnerGivesAway(p) ==
    Last'.op = "SetObjectOwnership" =>
        \A obj \in DOMAIN Objects[p] \cap ObjectArgs(p) : \A b \in Clients \ {p} :
            (/\ Objects[p][obj].OwnerClientId = p
             /\ SetObjectOwnership(p, obj, b, RoleReplicated))
                => /\ Objects'[p][obj].OwnerClientId = b
                   /\ Objects'[p][obj].Role = RoleReplicated
                   /\ Last'.sends = RoleSend(obj, b, {ServerClientId})

RoleArrives(p) ==
    Last'.op = "Role" =>
        \A client \in Senders(p) : \A msgData \in Messages(p, "Role") : \A order \in Orders :
            LET e == MessageTarget(p, msgData, order)
            IN  (/\ e # NullEntry
                 /\ ObjectAlive(p, e)
                 /\ Objects[p][e].OwnerClientId = SenderId(client) \/ IsClient(p)
                 /\ Handled(p, client, msgData, order, Reliable, Unreliable))
                    => /\ Objects'[p][e].OwnerClientId = msgData.OwnerClientId
                       /\ Last'.sends = IF IsClient(p) THEN <<>>
                                        ELSE RoleSend(e, msgData.OwnerClientId,
                                                      Connected \ {client})
                       /\ msgData.OwnerClientId = p =>
                             /\ Objects'[p][e].Role = RoleOwnedAuthoritative
                             /\ Objects'[p][e].LastOwnerFrame = 0

OwnershipRoundTrip ==
    [][/\ \A p \in Clients \ Stopped : OwnerGivesAway(p)
       /\ \A p \in Peers \ Stopped : RoleArrives(p)]_vars

\* Client 1 took the role message that makes it the owner of an entry the
\* server owned.
OwnershipRoundTripWitness ==
    /\ 1 \notin Stopped
    /\ Last.op = "Role" /\ Last.res = "accepted"
    /\ \E id \in DOMAIN Objects[1] :
          /\ Objects[1][id].OwnerClientId = 1
          /\ Objects[1][id].Role = RoleOwnedAuthoritative
          /\ Objects[1][id].LastOwnerFrame = 0

\* C6: InvokeSerializer on a type uses the type's table entry if there is
\* one, otherwise the type's INetworkSerializable interface if it has one,
\* otherwise what InvokeSerializer on the base type gives, and fails exactly
\* when no type of the base chain has an entry or the interface.
RECURSIVE BaseChain(_)
BaseChain(t) == IF t = NullType THEN {} ELSE {t} \cup BaseChain(TypeBase[t])

SerializerFallbackOrder ==
    \A p \in Peers : \A t \in Types :
        LET table == SerializersTable[p]
            r == InvokeSerializer(table, t)
        IN  /\ t \in DOMAIN table =>
                  (~r.failed /\ r.at = t /\ r.via = table[t] /\ r.table = table)
            /\ (t \notin DOMAIN table /\ t \in TypeInterface) =>
                  (~r.failed /\ r.at = t /\ r.via = "interface")
            /\ (t \notin DOMAIN table /\ t \notin TypeInterface) =>
                  r = InvokeSerializer(table, TypeBase[t])
            /\ r.failed <=>
                  \A u \in BaseChain(t) : u \notin DOMAIN table /\ u \notin TypeInterface

\* A call fell back to a base type that has both a table entry and the
\* interface, and was served by the entry.
SerializerFallbackWitness ==
    /\ Last.op = "InvokeSerializer"
    /\ ~Last.failed
    /\ Last.at # Last.type
    /\ Last.at \in TypeInterface
    /\ Last.res = "explicit"

\* C7 as stated: a server tick with a spawn intent queued for an entry the
\* server owns with role OwnedAuthoritative sends exactly one Spawn message
\* for it, carrying the server as owner, and leaves the entry spawned.
SpawnsFor(sends, obj) ==
    {i \in 1..Len(sends) : sends[i].msg.kind = "Spawn" /\ sends[i].msg.ObjectId = obj}

ServerSpawnTick(obj, order) ==
    /\ Last'.op = "Update"
    /\ ServerClientId \notin Stopped
    /\ InSeq(SpawnQueue[ServerClientId], obj)
    /\ obj \in DOMAIN Objects[ServerClientId]
    /\ ~Objects[ServerClientId][obj].Spawned
    /\ Objects[ServerClientId][obj].OwnerClientId = ServerClientId
    /\ Objects[ServerClientId][obj].Role = RoleOwnedAuthoritative
    /\ NetworkReplicatorUpdate(ServerClientId, order)

OneSpawnSent(obj) ==
    /\ Cardinality(SpawnsFor(Last'.sends, obj)) = 1
    /\ \A i \in SpawnsFor(Last'.sends, obj) :
          /\ Last'.sends[i].msg.OwnerClientId = ServerClientId
          /\ Last'.sends[i].targets = Connected
          /\ Last'.sends[i].targets # {}
    /\ obj \in DOMAIN Objects'[ServerClientId]
    /\ Objects'[ServerClientId][obj].Spawned

ScenarioB ==
    [][\A p \in Clients \ Stopped : Last'.op = "Spawn" =>
          \A msgData \in Messages(p, "Spawn") : \A order \in Orders :
              (/\ ReplicateTarget(p, msgData, order) = NullEntry
               /\ msgData.ObjectId \notin DOMAIN IdsRemappingTable[p]
               /\ Handled(p, NullClient, msgData, order, Reliable, Unreliable))
                  => \E id \in DOMAIN Objects'[p] \ DOMAIN Objects[p] :
                        /\ id # msgData.ObjectId
                        /\ msgData.ObjectId \in DOMAIN IdsRemappingTable'[p]
                        /\ IdsRemappingTable'[p][msgData.ObjectId] = id
                        /\ Objects'[p][id].Role = RoleReplicated
                        /\ Objects'[p][id].OwnerClientId = msgData.OwnerClientId]_vars

\* C9 as stated: a server tick with new clients pending sends one catch-up
\* Spawn message per spawned live entry, to the new clients only, and leaves
\* the list of new clients empty.
CatchUpTick(order) ==
    /\ Last'.op = "Update"
    /\ ServerClientId \notin Stopped
    /\ NewClients # <<>>
    /\ NetworkReplicatorUpdate(ServerClientId, order)

CaughtUp ==
    LET sends == Last'.sends
        catchUp == {i \in 1..Len(sends) : sends[i].phase = "NewClients"}
        spawned == {id \in DOMAIN Objects[ServerClientId] :
                       /\ Objects[ServerClientId][id].Spawned
                       /\ ObjectAlive(ServerClientId, id)}
    IN  /\ Cardinality(catchUp) = Cardinality(spawned)
        /\ {sends[i].msg.ObjectId : i \in catchUp} = spawned
        /\ \A i \in catchUp : /\ sends[i].msg.kind = "Spawn"
                              /\ sends[i].targets = Range(NewClients)
        /\ NewClients' = <<>>

LateJoinerCatchUp == [][\A order \in Orders : CatchUpTick(order) => CaughtUp]_vars

\* C9, amended: the same when the server's registry is not empty.
LateJoinerCatchUpTracked ==
    [][\A order \in Orders :
          (DOMAIN Objects[ServerClientId] # {} /\ CatchUpTick(order)) => CaughtUp]_vars

\* A server tick sent a catch-up Spawn message to a new client and not to
\* the client that was connected before.
LateJoinerCatchUpWitness ==
    /\ ServerClientId \notin Stopped
    /\ Last.op = "Update"
    /\ NewClients = <<>>
    /\ \E i \in 1..Len(Last.sends) :
          /\ Last.sends[i].phase = "NewClients"
          /\ Last.sends[i].targets # {}
          /\ Connected \ Last.sends[i].targets # {}

\* C10: on every peer an entry has role OwnedAuthoritative exactly when its
\* owner is the local client.
RoleOwnerInvariant ==
    \A p \in Peers : \A id \in DOMAIN Objects[p] :
        (Objects[p][id].Role = RoleOwnedAuthoritative) <=> (Objects[p][id].OwnerClientId = p)

\* C11: DespawnObject on an object that is not tracked, or whose entry is not
\* spawned, or whose owner is not the local peer, leaves the despawn queue,
\* the spawn queue, the registry and the objects unchanged.
DespawnRefused(p, obj) ==
    \/ obj \notin DOMAIN Objects[p]
    \/ ~Objects[p][obj].Spawned
    \/ Objects[p][obj].OwnerClientId # LocalClientId(p)

DespawnNoOp ==
    [][Last'.op = "DespawnObject" =>
          \A p \in Peers \ Stopped : \A obj \in ObjectArgs(p) :
              (DespawnRefused(p, obj) /\ DespawnObject(p, obj))
                 => /\ DespawnQueue' = DespawnQueue
                    /\ SpawnQueue' = SpawnQueue
                    /\ Objects' = Objects
                    /\ Heap' = Heap]_vars

\* A peer refused to despawn a tracked object it owns whose spawn is pending.
DespawnNoOpWitness ==
    /\ Last.op = "DespawnObject" /\ Last.res = "noop"
    /\ \E p \in Peers \ Stopped : \E obj \in DOMAIN Objects[p] \cap DOMAIN Heap[p] :
          /\ ~Objects[p][obj].Spawned
          /\ Objects[p][obj].OwnerClientId = LocalClientId(p)
          /\ InSeq(SpawnQueue[p], obj)

\* C12: in the messages of one tick, every Despawn message of the despawn
\* flush comes before every Spawn message of the spawn flush.
FlushOrder ==
    Last.op = "Update" =>
        \A i, j \in 1..Len(Last.sends) :
            (Last.sends[i].phase = "DespawnQueue" /\ Last.sends[j].phase = "SpawnQueue")
                => i < j

\* A tick sent a Despawn message and a Spawn message.
FlushOrderWitness ==
    /\ Last.op = "Update"
    /\ \E i, j \in 1..Len(Last.sends) :
          /\ Last.sends[i].phase = "DespawnQueue" /\ Last.sends[i].msg.kind = "Despawn"
          /\ Last.sends[j].phase = "SpawnQueue" /\ Last.sends[j].msg.kind = "Spawn"
          /\ Last.sends[i].targets # {} /\ Last.sends[j].targets # {}

\* C13: over the reliable ordered connections, no peer handles a Spawn
\* message for an id for which it has handled a Despawn message before.
NoSpawnAfterDespawn ==
    [][Last'.op = "Spawn" =>
          \A k \in Channels : \A order \in Orders :
              DeliverSpawn(k[1], k[2], order)
                 => Head(Reliable[k]).ObjectId \notin Despawned[k[2]]]_vars

\* Client 1 handled the Spawn and then the Despawn of the first object, and
\* after them the Spawn of the second.
NoSpawnAfterDespawnWitness ==
    /\ Last.op = "Spawn" /\ Last.res \in {"resolved", "created"}
    /\ Despawned[1] = {ServerObjectId}
    /\ {ServerObjectId, SecondObjectId} \subseteq DOMAIN IdsRemappingTable[1]

\* C14: a tick that runs its spawn flush sends a Spawn message only for
\* entries the local peer owns with role OwnedAuthoritative; a queued object
\* whose entry fails that test gets no Spawn message, keeps its spawned flag
\* and is no longer queued after the tick.
FlushTick(p, order) ==
    /\ Last'.op = "Update" /\ Last'.res = "done"
    /\ NetworkReplicatorUpdate(p, order)

FlushedBy(p) == {id \in AllGuids : SpawnCount'[p][id] > SpawnCount[p][id]}

SpawnFlushOwned ==
    [][\A p \in Peers \ Stopped : \A order \in Orders : FlushTick(p, order) =>
          /\ Cardinality({i \in 1..Len(Last'.sends) : Last'.sends[i].phase = "SpawnQueue"})
                = Cardinality(FlushedBy(p))
          /\ \A id \in FlushedBy(p) :
                /\ InSeq(SpawnQueue[p], id)
                /\ id \in DOMAIN Objects'[p]
                /\ Objects'[p][id].OwnerClientId = LocalClientId(p)
                /\ Objects'[p][id].Role = RoleOwnedAuthoritative
                /\ id \in DOMAIN Objects[p] =>
                      /\ Objects[p][id].OwnerClientId = LocalClientId(p)
                      /\ Objects[p][id].Role = RoleOwnedAuthoritative
          /\ \A id \in Range(SpawnQueue[p]) \cap DOMAIN Objects[p] :
                (\/ Objects[p][id].OwnerClientId # LocalClientId(p)
                 \/ Objects[p][id].Role # RoleOwnedAuthoritative)
                   => /\ id \notin FlushedBy(p)
                      /\ id \in DOMAIN Objects'[p]
                      /\ Objects'[p][id].Spawned = Objects[p][id].Spawned
                      /\ ~InSeq(SpawnQueue'[p], id)]_vars

\* A tick of the server dropped the queued spawn of an entry whose
\* ownership the server had given to a client.
SpawnFlushOwnedWitness ==
    /\ ServerClientId \notin Stopped
    /\ Last.op = "Update" /\ Last.res = "done"
    /\ SpawnQueue[ServerClientId] = <<>>
    /\ \A i \in 1..Len(Last.sends) : Last.sends[i].phase # "SpawnQueue"
    /\ \E id \in DOMAIN Objects[ServerClientId] :
          /\ Objects[ServerClientId][id].OwnerClientId = 1
          /\ ~Objects[ServerClientId][id].Spawned
          /\ SpawnCount[ServerClientId][id] = 0
          /\ Objects[ServerClientId][id].LastOwnerFrame = 1

\* C15 as stated: a server tick never sends a client that joined since the
\* last tick a Replicate message for an object unless the server sent that
\* client a Spawn message for the object before it.
ReplicatesTo(sends, c) ==
    {i \in 1..Len(sends) : sends[i].msg.kind = "Replicate" /\ c \in sends[i].targets}

SpawnedBefore(sends, i, c) ==
    \/ sends[i].msg.ObjectId \in SpawnSent[c]
    \/ \E j \in 1..(i - 1) : /\ sends[j].msg.kind = "Spawn"
                             /\ sends[j].msg.ObjectId = sends[i].msg.ObjectId
                             /\ c \in sends[j].targets

JoinTick(order) ==
    /\ Last'.op = "Update"
    /\ ServerClientId \notin Stopped
    /\ NetworkReplicatorUpdate(ServerClientId, order)

QueuesDrained ==
    [][\A p \in Peers \ Stopped : \A order \in Orders :
          (/\ Last'.op = "Update"
           /\ Last'.res \in {"empty", "notargets", "done"}
           /\ NetworkReplicatorUpdate(p, order))
              => /\ SpawnQueue'[p] = <<>>
                 /\ DespawnQueue'[p] = <<>>]_vars

\* C17: every Spawn, Despawn and Role message a client sends carries, in
\* each of its id fields, the key the remapping table binds to the local id
\* when there is one: no id field holds a local id that the table maps a
\* different remote id to.
IdFields(msg) ==
    IF msg.kind = "Spawn" THEN {msg.ObjectId, msg.ParentId} ELSE {msg.ObjectId}

SentRaw(table, id) == \E k \in DOMAIN table : table[k] = id /\ k # id

ClientSent(kinds) ==
    {i \in 1..Len(Last'.sends) : Last'.sends[i].msg.kind \in kinds}

ClientRemaps(kinds) ==
    \A p \in Clients \ Stopped : \A i \in ClientSent(kinds) :
        \A id \in IdFields(Last'.sends[i].msg) : ~SentRaw(IdsRemappingTable[p], id)

OutboundRemapped == [][ClientRemaps({"Spawn", "Despawn", "Role"})]_vars

\* C18: on every peer, looking a key of the remapping table up and then
\* taking the key of the result (IdsRemappingTable.KeyOf) gives the key back:
\* no two keys of the table are bound to the same local id.
RemappingBidirectional ==
    \A p \in Peers : \A x \in DOMAIN IdsRemappingTable[p] : \A order \in Orders :
        KeyOf(IdsRemappingTable[p], TryGet(IdsRemappingTable[p], x), order) = x

\* C19: no step removes a key of a peer's remapping table or binds it to
\* another local id, and no handler reaches IdsRemappingTable.Add with an id
\* that is already a key of the table.
KeysKept ==
    \A p \in Peers : \A k \in DOMAIN IdsRemappingTable[p] :
        /\ k \in DOMAIN IdsRemappingTable'[p]
        /\ IdsRemappingTable'[p][k] = IdsRemappingTable[p][k]

StaleEntriesHarmless ==
    [][/\ KeysKept
       /\ Last'.op \in {"Spawn", "Replicate"} => Last'.res # "assert"]_vars

\* C20: when a Spawn or Replicate message names an id that neither the
\* registry nor the remapping table resolves, the handler's context lookup
\* binds it only to a registered entry with LastOwnerFrame 0, a live object
\* of the message's type and the message's remapped parent; a lookup that
\* succeeds records id -> that entry, and the id then resolves to the entry;
\* with no such entry the lookup finds nothing and the table is unchanged
\* (a Replicate handler then changes nothing at all). A recorded id resolves
\* to the same entry for as long as the entry stays in the registry.
ContextKinds == {"Spawn", "Replicate"}

ContextMatch(p, msgData, e) ==
    /\ e \in DOMAIN Objects[p]
    /\ Objects[p][e].LastOwnerFrame = 0
    /\ e \in DOMAIN Heap[p]
    /\ Heap[p][e].Type = msgData.ObjectTypeName
    /\ Objects[p][e].ParentId =
          (IF msgData.ParentId \in DOMAIN IdsRemappingTable[p]
           THEN IdsRemappingTable[p][msgData.ParentId] ELSE msgData.ParentId)

FoundByContext(kind) ==
    IF kind = "Spawn" THEN Last'.res = "resolved"
    ELSE Last'.res \notin {"unresolved", "assert"}

ContextLookup(p, kind, msgData) ==
    LET id == msgData.ObjectId
        table == IdsRemappingTable[p]
        after == IdsRemappingTable'[p]
        bound == {k \in DOMAIN after : k \notin DOMAIN table}
    IN  /\ (bound # {} /\ Last'.res # "created") =>
              /\ bound = {id}
              /\ ContextMatch(p, msgData, after[id])
        /\ FoundByContext(kind) =>
              /\ id \in DOMAIN after
              /\ ContextMatch(p, msgData, after[id])
              /\ ResolveObject(Objects'[p], after, id) = after[id]
        /\ (~\E e \in DOMAIN Objects[p] : ContextMatch(p, msgData, e)) =>
              /\ ~FoundByContext(kind)
              /\ Last'.res # "created" => after = table
              /\ kind = "Replicate" =>
                    (Last'.res = "unresolved" /\ Objects' = Objects /\ Heap' = Heap)

ResolvesTheSame(p) ==
    \A k \in DOMAIN IdsRemappingTable[p] :
        (/\ k \notin DOMAIN Objects[p]
         /\ IdsRemappingTable[p][k] \in DOMAIN Objects[p]
         /\ IdsRemappingTable[p][k] \in DOMAIN Objects'[p])
            => ResolveObject(Objects'[p], IdsRemappingTable'[p], k) = IdsRemappingTable[p][k]

ResolveByContext ==
    [][\A p \in Peers \ Stopped :
          /\ ResolvesTheSame(p)
          /\ \A kind \in ContextKinds : Last'.op = kind =>
                \A client \in Senders(p) : \A msgData \in Messages(p, kind) :
                    \A order \in Orders :
                        (/\ ResolveObject(Objects[p], IdsRemappingTable[p],
                                          msgData.ObjectId) = NullEntry
                         /\ Handled(p, client, msgData, order, Reliable, Unreliable))
                            => ContextLookup(p, kind, msgData)]_vars

\* A client bound a foreign id to an entry it had registered itself, from a
\* state update that named the entry's type and parent.
ResolveByContextWitness ==
    /\ Last.op = "Replicate" /\ Last.res = "applied"
    /\ \E p \in Clients \ Stopped : \E k \in DOMAIN IdsRemappingTable[p] :
          /\ k \in ForeignIds(p)
          /\ IdsRemappingTable[p][k] \in LocalIds(p) \cap DOMAIN Objects[p]
          /\ Objects[p][IdsRemappingTable[p][k]].LastOwnerFrame # 0
          /\ HighestAccepted[p][IdsRemappingTable[p][k]] # 0

\* ------------------------------------------------- the public API alone
\* One process, the server or a client, whose game code calls the public
\* API with any live object or with nullptr, while the transport hands it
\* spawn and role messages.
ApiArgs(p) == ObjectArgs(p) \cup {GuidEmpty}

NextApi ==
    \/ Budget /\ \E p \in Peers : \E obj \in ApiArgs(p) : \E parent \in ParentArgs :
          AddObject(p, obj, parent)
    \/ Budget /\ \E p \in Peers : \E obj \in ObjectArgs(p) : SpawnObject(p, obj)
    \/ Budget /\ \E p \in Peers : \E obj \in ObjectArgs(p) : \E owner \in OwnerArgs : \E role \in Roles :
          SetObjectOwnership(p, obj, owner, role)
    \/ ConnectBudget /\ \E c \in Clients : NetworkReplicatorClientConnected(c)
    \/ Budget /\ \E p \in Peers : \E order \in OrdersAt(p) : NetworkReplicatorUpdate(p, order)
    \/ Budget /\ \E p \in Peers : ReceiveSpawn(p)
    \/ Budget /\ \E p \in Peers : ReceiveRole(p)

SpecApi == InitEither /\ [][NextApi]_vars

\* C21: AddObject on a null object, on an offline peer or on an object that
\* is already tracked changes nothing; otherwise it adds one entry for the
\* object, owned by the server, with LastOwnerFrame 0, not spawned, and with
\* role Replicated on a client and OwnedAuthoritative on the server, and
\* changes nothing else.
ReplicatorUnchanged ==
    UNCHANGED <<Objects, Heap, SpawnQueue, DespawnQueue, IdsRemappingTable, NewClients,
                SerializersTable, Reliable, Unreliable, Connected, Stopped>>

AddObjectContract ==
    [][Last'.op = "AddObject" =>
          \A p \in Peers \ Stopped : \A obj \in ApiArgs(p) : \A parent \in ParentArgs :
              AddObject(p, obj, parent) =>
                 IF obj = GuidEmpty \/ (p \in Clients /\ p \notin Connected)
                      \/ obj \in DOMAIN Objects[p]
                 THEN ReplicatorUnchanged
                 ELSE /\ DOMAIN Objects'[p] = DOMAIN Objects[p] \cup {obj}
                      /\ \A id \in DOMAIN Objects[p] : Objects'[p][id] = Objects[p][id]
                      /\ \A q \in Peers \ {p} : Objects'[q] = Objects[q]
                      /\ Objects'[p][obj].ObjectId = obj
                      /\ Objects'[p][obj].OwnerClientId = ServerClientId
                      /\ Objects'[p][obj].LastOwnerFrame = 0
                      /\ Objects'[p][obj].Spawned = FALSE
                      /\ Objects'[p][obj].Role = (IF p \in Clients THEN RoleReplicated
                                                  ELSE RoleOwnedAuthoritative)
                      /\ UNCHANGED <<Heap, SpawnQueue, DespawnQueue, IdsRemappingTable,
                                     NewClients, SerializersTable, Reliable, Unreliable,
                                     Connected, Stopped>>]_vars

\* AddObject was called on an object whose entry a role message had given
\* to another owner, and left the entry as it was.
AddObjectContractWitness ==
    /\ Last.op = "AddObject" /\ Last.res = "tracked"
    /\ \E p \in Peers \ Stopped : \E id \in DOMAIN Objects[p] :
          /\ Objects[p][id].LastOwnerFrame # 0
          /\ Objects[p][id].OwnerClientId # ServerClientId

\* C22: each inbound handler is idempotent: when a peer has handled a
\* message, handling the same message from the same sender once more leaves
\* its registry, objects and remapping table as they are; a repeated Spawn
\* message creates no further entry or object.
HandlerKinds == {"Spawn", "Despawn", "Role", "Replicate"}

HandledTwice(p, client, msgData) ==
    \A again \in Orders :
        LET r == Handle(p, client, msgData, again)'
        IN  /\ r.objs = Objects'[p]
            /\ r.heap = Heap'[p]
            /\ r.table = IdsRemappingTable'[p]
            /\ r.created = 0
            /\ ~r.crashed

IdempotentHandlers ==
    [][\A p \in Peers \ Stopped : \A kind \in HandlerKinds : Last'.op = kind =>
          \A client \in Senders(p) : \A msgData \in Messages(p, kind) : \A order \in Orders :
              (Handled(p, client, msgData, order, Reliable, Unreliable) /\ p \notin Stopped')
                  => HandledTwice(p, client, msgData)]_vars

\* ------------------------------------------------- locking discipline
\* Each function of the replicator as the sequence of its steps that matter
\* to ObjectsLock: a test of its arguments, the construction or destruction
\* of a ScopeLock, an access to shared structures, or the publication of a
\* pointer. `at` is the source line of the step.
Guarded == {"Objects", "SpawnQueue", "DespawnQueue", "IdsRemappingTable"}

Check(at) == [do |-> "check", on |-> {}, at |-> at]
Lock(at) == [do |-> "lock", on |-> {}, at |-> at]
Unlock(at) == [do |-> "unlock", on |-> {}, at |-> at]
Touch(on, at) == [do |-> "touch", on |-> on, at |-> at]
Publish(at) == [do |-> "publish", on |-> {}, at |-> at]

\* A SpawnObject that reads the registry and writes the queue with no lock.
SpawnObjectStepsUnlocked ==
    <<Check(372), Touch({"Objects"}, 375), Touch({"SpawnQueue"}, 380)>>

AddObjectSteps ==
    <<Check(345), Lock(347), Touch({"Objects"}, 348), Touch({"Objects"}, 367), Unlock(368)>>
SpawnObjectSteps ==
    <<Check(372), Lock(374), Touch({"Objects"}, 375), Touch({"SpawnQueue"}, 380), Unlock(381)>>
DespawnObjectSteps ==
    <<Check(385), Lock(387), Touch({"Objects"}, 388), Touch({"DespawnQueue"}, 398),
      Touch({"SpawnQueue"}, 401), Unlock(405)>>
GetObjectClientIdSteps ==
    <<Check(410), Lock(412), Touch({"Objects"}, 413), Unlock(416)>>
GetObjectRoleSteps ==
    <<Check(423), Lock(425), Touch({"Objects"}, 426), Unlock(429)>>
SetObjectOwnershipSteps ==
    <<Check(435), Lock(437), Touch({"Objects"}, 438), Touch({"Objects"}, 453), Unlock(470)>>
DirtyObjectSteps ==
    <<Lock(474), Touch({"Objects"}, 475), Unlock(482)>>
ClientConnectedSteps ==
    <<Lock(486), Touch({"NewClients"}, 487), Unlock(488)>>
ClearSteps ==
    <<Lock(498), Touch({"Objects"}, 502), Touch({"Objects"}, 512),
      Touch({"SpawnQueue"}, 514), Touch({"DespawnQueue"}, 515),
      Touch({"IdsRemappingTable"}, 516), Touch({"NewClients"}, 519), Unlock(521)>>
PreUpdateSteps ==
    <<Publish(526)>>
UpdateSteps ==
    <<Lock(532), Touch({"Objects"}, 533), Touch({"NewClients", "Objects"}, 551),
      Touch({"DespawnQueue", "IdsRemappingTable"}, 579),
      Touch({"DespawnQueue"}, 598),
      Touch({"SpawnQueue", "Objects"}, 605),
      Lock(347), Touch({"Objects"}, 348), Touch({"Objects"}, 367), Unlock(368),
      Touch({"Objects", "IdsRemappingTable"}, 613),
      Touch({"SpawnQueue"}, 625), Touch({"Objects"}, 635), Unlock(688)>>
ReplicateSteps ==
    <<Lock(694), Touch({"Objects", "IdsRemappingTable"}, 695), Touch({"Objects"}, 714),
      Unlock(741)>>
SpawnSteps ==
    <<Lock(747), Touch({"Objects", "IdsRemappingTable"}, 748), Touch({"Objects"}, 853),
      Touch({"IdsRemappingTable"}, 857), Unlock(871)>>
DespawnSteps ==
    <<Lock(877), Touch({"Objects", "IdsRemappingTable"}, 878), Touch({"Objects"}, 891),
      Unlock(898)>>
RoleSteps ==
    <<Lock(904), Touch({"Objects", "IdsRemappingTable"}, 905), Touch({"Objects"}, 917),
      Unlock(941)>>

Functions ==
    {"AddObject", "SpawnObject", "DespawnObject", "GetObjectClientId", "GetObjectRole",
     "SetObjectOwnership", "DirtyObject", "ClientConnected", "Clear", "PreUpdate", "Update",
     "Replicate", "Spawn", "Despawn", "Role"}

StepsOf(f) ==
    CASE f = "AddObject" -> AddObjectSteps
      [] f = "SpawnObject" -> SpawnObjectSteps
      [] f = "DespawnObject" -> DespawnObjectSteps
      [] f = "GetObjectClientId" -> GetObjectClientIdSteps
      [] f = "GetObjectRole" -> GetObjectRoleSteps
      [] f = "SetObjectOwnership" -> SetObjectOwnershipSteps
      [] f = "DirtyObject" -> DirtyObjectSteps
      [] f = "ClientConnected" -> ClientConnectedSteps
      [] f = "Clear" -> ClearSteps
      [] f = "PreUpdate" -> PreUpdateSteps
      [] f = "Update" -> UpdateSteps
      [] f = "Replicate" -> ReplicateSteps
      [] f = "Spawn" -> SpawnSteps
      [] f = "Despawn" -> DespawnSteps
      [] f = "Role" -> RoleSteps

\* The step thread t is about to run.
Running(t) == Locking.pc[t] # Idle
NextStep(t) == StepsOf(Locking.pc[t][1])[Locking.pc[t][2]]
Advanced(t) ==
    IF Locking.pc[t][2] = Len(StepsOf(Locking.pc[t][1])) THEN Idle
    ELSE <<Locking.pc[t][1], Locking.pc[t][2] + 1>>

\* CriticalSection::Lock: free, or owned by the calling thread (recursive).
Acquirable(t) == Locking.owner \in {NoThread, t}

\* Thread t enters function f.
Enter(t, f) ==
    /\ ~Running(t)
    /\ Locking' = [Locking EXCEPT !.pc[t] = <<f, 1>>]

\* Thread t runs its next step.
Step(t) ==
    /\ Running(t)
    /\ CASE NextStep(t).do = "lock" ->
               /\ Acquirable(t)
               /\ Locking' = [Locking EXCEPT !.owner = t, !.depth = @ + 1,
                                             !.pc[t] = Advanced(t)]
         [] NextStep(t).do = "unlock" ->
               Locking' = [Locking EXCEPT !.owner = IF Locking.depth = 1 THEN NoThread ELSE @,
                                          !.depth = @ - 1,
                                          !.pc[t] = Advanced(t)]
         [] OTHER -> Locking' = [Locking EXCEPT !.pc[t] = Advanced(t)]

\* Thread t returns early from the function it runs: the function's
\* ScopeLock, if constructed, is destroyed on the way out.
Return(t) ==
    /\ Running(t)
    /\ NextStep(t).do = "touch"
    /\ Locking.depth = 1
    /\ Locking' = [Locking EXCEPT !.pc[t] = <<Locking.pc[t][1],
                                              Len(StepsOf(Locking.pc[t][1]))>>]

LockingOnly ==
    UNCHANGED <<Objects, Heap, NextGuid, SpawnQueue, DespawnQueue, IdsRemappingTable,
                NewClients, SerializersTable, TypeBase, TypeInterface, Connected, Frame,
                Reliable, Unreliable, Stopped, Last, SpawnCount, DespawnCount,
                DespawnCalls, HighestAccepted, Despawned, SpawnSent, Steps>>

NextLocking ==
    \/ \E t \in Threads : \E f \in Functions : Enter(t, f) /\ LockingOnly
    \/ \E t \in Threads : Step(t) /\ LockingOnly
    \/ \E t \in Threads : Return(t) /\ LockingOnly

SpecLocking == InitServer /\ [][NextLocking]_vars

\* C23: a thread reads or writes the registry, a queue or the remapping
\* table only while it holds ObjectsLock; from the construction of a
\* function's ScopeLock to the function's end the thread holds the lock, so
\* while one thread is inside a locked function, the tick included, no other
\* thread is inside one or touches those structures.
Locked(t) ==
    /\ Running(t)
    /\ \E j \in 1..(Locking.pc[t][2] - 1) : StepsOf(Locking.pc[t][1])[j].do = "lock"

Touching(t) ==
    Running(t) /\ NextStep(t).do = "touch" /\ NextStep(t).on \cap Guarded # {}

LockDiscipline ==
    \A t \in Threads :
        /\ Touching(t) => Locking.owner = t
        /\ Locked(t) => /\ Locking.owner = t
                         /\ \A u \in Threads \ {t} : ~Locked(u) /\ ~Touching(u)

\* The simulation thread is inside the tick's spawn flush, in the nested
\* AddObject call, while the network thread waits for the lock at the start
\* of a spawn handler.
LockDisciplineWitness ==
    /\ Locking.pc["simulation"][1] = "Update"
    /\ Locking.depth = 2
    /\ Locking.owner = "simulation"
    /\ Locking.pc["network"] = <<"Spawn", 1>>

\* ---------------------------------------------------------- teardown
\* The loop of NetworkReplicatorClear over the registry: the objects left
\* once every spawned entry whose object is still alive had it deleted.
RECURSIVE ClearObjects(_, _, _)
ClearObjects(objs, ids, heap) ==
    IF ids = <<>> THEN heap
    ELSE ClearObjects(objs, Tail(ids),
                      IF Head(ids) \in DOMAIN heap /\ objs[Head(ids)].Spawned
                      THEN DeleteNetworkObject(heap, Head(ids))
                      ELSE heap)

\* NetworkInternal::NetworkReplicatorClear on peer p.
NetworkReplicatorClear(p) ==
    /\ p \notin Stopped
    /\ Heap' = [Heap EXCEPT ![p] = ClearObjects(Objects[p], SortedSeq(DOMAIN Objects[p]), @)]
    /\ Objects' = [Objects EXCEPT ![p] = EmptyMap]
    /\ SpawnQueue' = [SpawnQueue EXCEPT ![p] = <<>>]
    /\ DespawnQueue' = [DespawnQueue EXCEPT ![p] = <<>>]
    /\ IdsRemappingTable' = [IdsRemappingTable EXCEPT ![p] = EmptyMap]
    /\ NewClients' = IF IsClient(p) THEN NewClients ELSE <<>>
    /\ Last' = Event("Clear", p, GuidEmpty, NullClient, 0, "cleared")
    /\ UNCHANGED <<NextGuid, SerializersTable, Connected, Frame, Stopped>>
    /\ UNCHANGED <<netVars, typeVars, histVars, Locking>>

\* A server in a running session whose game holds an actor and a script
\* attached to it; each is untracked, registered, or registered and spawned.
ActorId == ServerObjectId
ScriptId == SecondObjectId
TeardownObjects ==
    (ActorId :> [Type |-> 2, Parent |-> GuidEmpty, State |-> 0])
    @@ (ScriptId :> [Type |-> 3, Parent |-> ActorId, State |-> 0])

InitTeardown ==
    /\ InitReplicator
    /\ InitTypes
    /\ Stopped = Peers \ {ServerClientId}
    /\ Heap = [p \in Peers |-> IF p = ServerClientId THEN TeardownObjects ELSE EmptyMap]
    /\ \E tracked \in SUBSET {ActorId, ScriptId} : \E spawned \in SUBSET tracked :
          Objects = [p \in Peers |->
                       IF p = ServerClientId
                       THEN [id \in tracked |->
                               NewItem(id, TeardownObjects[id].Parent, ServerClientId,
                                       RoleOwnedAuthoritative, id \in spawned)]
                       ELSE EmptyMap]

NextTeardown ==
    \/ Budget /\ \E p \in Peers : \E obj \in ObjectArgs(p) : \E parent \in ParentArgs :
          AddObject(p, obj, parent)
    \/ Budget /\ \E p \in Peers : \E obj \in ObjectArgs(p) : SpawnObject(p, obj)
    \/ Budget /\ \E p \in Peers : \E obj \in ObjectArgs(p) : DespawnObject(p, obj)
    \/ ConnectBudget /\ \E c \in Clients : NetworkReplicatorClientConnected(c)
    \/ Budget /\ \E p \in Peers : \E order \in OrdersAt(p) : NetworkReplicatorUpdate(p, order)
    \/ Budget /\ \E p \in Peers : ReceiveSpawn(p)
    \/ Budget /\ \E p \in Peers : NetworkReplicatorClear(p)

SpecTeardown == InitTeardown /\ [][NextTeardown]_vars

\* C24 as stated: NetworkReplicatorClear leaves the registry, both queues,
\* the remapping table and the list of new clients empty; the object of every
\* spawned entry that was alive is destroyed, and the object of every entry
\* that was not spawned is still alive if it was before.
Cleared(p) ==
    /\ Objects'[p] = EmptyMap
    /\ SpawnQueue'[p] = <<>>
    /\ DespawnQueue'[p] = <<>>
    /\ IdsRemappingTable'[p] = EmptyMap
    /\ p = ServerClientId => NewClients' = <<>>

SpawnedAlive(p) ==
    {id \in DOMAIN Objects[p] : Objects[p][id].Spawned /\ id \in DOMAIN Heap[p]}

ClearStep(p) == Last'.op = "Clear" /\ NetworkReplicatorClear(p)

Teardown ==
    [][\A p \in Peers \ Stopped : ClearStep(p) =>
          /\ Cleared(p)
          /\ \A id \in SpawnedAlive(p) : id \notin DOMAIN Heap'[p]
          /\ \A id \in (DOMAIN Objects[p] \cap DOMAIN Heap[p]) \ SpawnedAlive(p) :
                id \in DOMAIN Heap'[p]]_vars

\* C24, amended: the same, except that a spawned script attached to an
\* actor is destroyed by destroying the actor, and an object goes with the
\* object it is attached to: the objects destroyed are exactly the spawned
\* live objects, the actors of the scripts among them, and what is attached
\* to any of these, spawned or not.
Destroyed(p) ==
    LET heap == Heap[p]
        actors == {heap[id].Parent : id \in {s \in SpawnedAlive(p) :
                                                /\ heap[s].Type = 3
                                                /\ heap[s].Parent \in DOMAIN heap}}
        roots == SpawnedAlive(p) \cup actors
    IN  {o \in DOMAIN heap :
            \E n \in 0..Cardinality(DOMAIN heap) :
                \E path \in [0..n -> DOMAIN heap] :
                    /\ path[0] = o
                    /\ path[n] \in roots
                    /\ \A i \in 0..(n - 1) : heap[path[i]].Parent = path[i + 1]}

TeardownAttached ==
    [][\A p \in Peers \ Stopped : ClearStep(p) =>
          /\ Cleared(p)
          /\ DOMAIN Heap'[p] = DOMAIN Heap[p] \ Destroyed(p)
          /\ \A id \in SpawnedAlive(p) : id \notin DOMAIN Heap'[p]]_vars

\* The server tore down a session in which a script was spawned and its
\* actor only registered: both objects are gone.
TeardownWitness ==
    /\ Last.op = "Clear"
    /\ ServerClientId \notin Stopped
    /\ Objects[ServerClientId] = EmptyMap
    /\ DOMAIN Heap[ServerClientId] \cap {ActorId, ScriptId} = {}
    /\ SpawnCount[ServerClientId][ScriptId] > 0
    /\ SpawnCount[ServerClientId][ActorId] = 0

\* ---------------------------------------------------------------------
\* State updates of owned objects
\* ---------------------------------------------------------------------

\* The entries of peer p that p owns and whose object is alive.
OwnedEntries(p) ==
    {o \in DOMAIN Objects[p] :
        Objects[p][o].Role = RoleOwnedAuthoritative /\ ObjectAlive(p, o)}

\* C25: a peer whose role for an entry is OwnedAuthoritative never applies
\* an inbound state update to it: whatever the sender and the sequence
\* number of the message, the state of the object and the entry's
\* LastOwnerFrame are the same after the handler as before.
OwnedNeverApplied ==
    [][Last'.op = "Replicate" =>
         \A p \in Peers : \A o \in OwnedEntries(p) :
            /\ o \in DOMAIN Objects'[p]
            /\ Objects'[p][o].LastOwnerFrame = Objects[p][o].LastOwnerFrame
            /\ o \in DOMAIN Heap'[p]
            /\ Heap'[p][o].State = Heap[p][o].State]_vars

\* A state update for an object the peer owns has just been skipped.
OwnedNeverAppliedWitness == Last.op = "Replicate" /\ Last.res = "owned"

\* C26: a state update advances an entry's LastOwnerFrame only when its
\* payload was applied to the object through the serializer; an update
\* whose deserialization finds no serializer leaves LastOwnerFrame alone.
SequenceOnlyWhenApplied ==
    [][Last'.op = "Replicate" =>
         \A p \in Peers : \A o \in DOMAIN Objects[p] \cap DOMAIN Objects'[p] :
            Objects'[p][o].LastOwnerFrame # Objects[p][o].LastOwnerFrame
                => Last'.res = "applied"]_vars

\* ---------------------------------------------------------------------
\* Spawn messages about known objects
\* ---------------------------------------------------------------------

\* C27: a spawn message that resolves to an existing entry marks the entry
\* spawned and creates neither an entry nor an object; on a client the
\* entry's owner becomes the owner the message names, on the server the
\* entry's owner and role stay as they were.
SpawnOfKnownObject ==
    [][\A p \in Peers \ Stopped : (Last'.op = "Spawn" /\ Last'.res = "resolved") =>
          \A client \in Senders(p) : \A msgData \in Messages(p, "Spawn") :
              \A order \in Orders :
                  LET e == ResolveObjectContext(p, msgData.ObjectId, msgData.ParentId,
                                                msgData.ObjectTypeName, order).e
                  IN  (e # NullEntry /\ Handled(p, client, msgData, order, Reliable, Unreliable))
                        => /\ Objects'[p][e].Spawned
                           /\ DOMAIN Objects'[p] = DOMAIN Objects[p]
                           /\ DOMAIN Heap'[p] = DOMAIN Heap[p]
                           /\ NextGuid' = NextGuid
                           /\ IsClient(p) =>
                                 Objects'[p][e].OwnerClientId = msgData.OwnerClientId
                           /\ ~IsClient(p) =>
                                 /\ Objects'[p][e].OwnerClientId = Objects[p][e].OwnerClientId
                                 /\ Objects'[p][e].Role = Objects[p][e].Role]_vars

\* A client has handled a spawn message about an entry of its own; the entry
\* is spawned and the server, which the message names, is its owner.
SpawnOfKnownObjectWitness ==
    /\ Last.op = "Spawn" /\ Last.res = "resolved"
    /\ \E p \in Clients \ Stopped : \E o \in DOMAIN Objects[p] \cap LocalIds(p) :
          /\ Objects[p][o].Spawned
          /\ Objects[p][o].OwnerClientId = ServerClientId
          /\ Objects[p][o].Role = RoleReplicated

\* ---------------------------------------------------------------------
\* Despawn messages
\* ---------------------------------------------------------------------

\* The despawn handler of peer p removes the entry a message resolves to and
\* destroys its object exactly when the entry is spawned, its object is alive
\* and its owner is the sender; otherwise it leaves the registry and the
\* objects as they were. The sender of a message a client handles is the
\* server; with anySender the owner is only compared on the server.
DespawnExactly(p, anySender) ==
    Last'.op = "Despawn" =>
        \A client \in Senders(p) : \A msgData \in Messages(p, "Despawn") :
            \A order \in Orders :
                LET e == ResolveObject(Objects[p], IdsRemappingTable[p], msgData.ObjectId)
                    due == /\ e # NullEntry
                           /\ Objects[p][e].Spawned
                           /\ ObjectAlive(p, e)
                           /\ \/ Objects[p][e].OwnerClientId = SenderId(client)
                              \/ anySender /\ IsClient(p)
                IN  Handled(p, client, msgData, order, Reliable, Unreliable)
                      => IF due
                         THEN /\ DOMAIN Objects'[p] = DOMAIN Objects[p] \ {e}
                              /\ e \notin DOMAIN Heap'[p]
                         ELSE Objects'[p] = Objects[p] /\ Heap'[p] = Heap[p]

\* C28 as stated: on every peer the despawn handler removes the entry and
\* destroys its object exactly when the id resolves to a spawned entry with a
\* live object whose owner is the sender, and changes nothing otherwise.
DespawnHandler == [][\A p \in Peers \ Stopped : DespawnExactly(p, FALSE)]_vars

\* C28, amended: the despawn handler removes the entry and destroys its
\* object exactly when the id resolves to a spawned entry with a live object
\* and, on the server, the entry's owner is the sending client; a client
\* compares no owner. In every other case nothing changes.
DespawnHandlerServerChecks == [][\A p \in Peers \ Stopped : DespawnExactly(p, TRUE)]_vars

\* The server has removed an entry on the despawn message of its owner.
DespawnHandlerWitness ==
    /\ ServerClientId \notin Stopped
    /\ Last.op = "Despawn" /\ Last.res = "despawned"
    /\ \E o \in ForeignIds(ServerClientId) : o \in DOMAIN IdsRemappingTable[ServerClientId]

\* ---------------------------------------------------------------------
\* Ownership changes
\* ---------------------------------------------------------------------

\* Peer p accepted a role message: the entry's owner is the one the message
\* names; a peer that became the owner has role OwnedAuthoritative and
\* LastOwnerFrame 0, any other peer has LastOwnerFrame 1 and has given up
\* the OwnedAuthoritative role it may have held.
RoleAccepted(p) ==
    (Last'.op = "Role" /\ Last'.res = "accepted") =>
        \A client \in Senders(p) : \A msgData \in Messages(p, "Role") : \A order \in Orders :
            LET e == ResolveObject(Objects[p], IdsRemappingTable[p], msgData.ObjectId)
            IN  (e # NullEntry /\ Handled(p, client, msgData, order, Reliable, Unreliable))
                  => /\ Objects'[p][e].OwnerClientId = msgData.OwnerClientId
                     /\ IF msgData.OwnerClientId = LocalClientId(p)
                        THEN /\ Objects'[p][e].Role = RoleOwnedAuthoritative
                             /\ Objects'[p][e].LastOwnerFrame = 0
                        ELSE /\ Objects'[p][e].LastOwnerFrame = 1
                             /\ Objects'[p][e].Role =
                                   IF Objects[p][e].Role = RoleOwnedAuthoritative
                                   THEN RoleReplicated ELSE Objects[p][e].Role

\* The owner p of an entry gave it to another peer with SetObjectOwnership:
\* the entry's LastOwnerFrame is 1.
GivenAway(p) ==
    Last'.op = "SetObjectOwnership" =>
        \A obj \in DOMAIN Objects[p] \cap ObjectArgs(p) : \A b \in OwnerArgs \ {LocalClientId(p)} :
            \A localRole \in Roles \ {RoleOwnedAuthoritative} :
                (/\ Objects[p][obj].OwnerClientId = LocalClientId(p)
                 /\ SetObjectOwnership(p, obj, b, localRole))
                    => /\ Objects'[p][obj].OwnerClientId = b
                       /\ Objects'[p][obj].LastOwnerFrame = 1

\* C29: after an accepted role message the entry's owner is the message's
\* owner; if that is the local peer the role is OwnedAuthoritative and
\* LastOwnerFrame is 0, otherwise LastOwnerFrame is 1 and a role of
\* OwnedAuthoritative has become Replicated; SetObjectOwnership by the owner
\* giving the object away sets LastOwnerFrame to 1 as well.
OwnershipSequenceReset ==
    [][\A p \in Peers \ Stopped : RoleAccepted(p) /\ GivenAway(p)]_vars

\* Client 1 has taken a role message that names the server as the owner of
\* an entry the client registered itself.
OwnershipSequenceResetWitness ==
    /\ 1 \notin Stopped
    /\ Last.op = "Role" /\ Last.res = "accepted"
    /\ \E id \in DOMAIN Objects[1] \cap LocalIds(1) :
          /\ Objects[1][id].OwnerClientId = ServerClientId
          /\ Objects[1][id].Role = RoleReplicated
          /\ Objects[1][id].LastOwnerFrame = 1
          /\ ~Objects[1][id].Spawned

\* Peer p handled a role message. The server, when it accepts the message of
\* client c, makes one send: a role message with the entry's id and the new
\* owner, to the connected clients other than c. A message that does not
\* resolve, whose object is dead or whose sender is not the owner causes no
\* send, and a client sends nothing whatever it does with the message.
RoleRelay(p) ==
    Last'.op = "Role" =>
        \A client \in Senders(p) : \A msgData \in Messages(p, "Role") : \A order \in Orders :
            LET e == ResolveObject(Objects[p], IdsRemappingTable[p], msgData.ObjectId)
                taken == /\ e # NullEntry
                         /\ ObjectAlive(p, e)
                         /\ Objects[p][e].OwnerClientId = client
            IN  Handled(p, client, msgData, order, Reliable, Unreliable)
                  => IF ~IsClient(p) /\ taken
                     THEN /\ Last'.sends = RoleSend(e, msgData.OwnerClientId,
                                                    Connected \ {client})
                          /\ Objects'[p][e].OwnerClientId = msgData.OwnerClientId
                     ELSE /\ Last'.sends = <<>>
                          /\ Reliable' = Reliable
                          /\ Unreliable' = Unreliable

\* C30: the server, accepting a role message from client c, sends one role
\* message with the new owner to every connected client other than c; a
\* rejected or unresolvable role message causes no message; a client never
\* sends a role message on.
OwnershipFanOut == [][\A p \in Peers \ Stopped : RoleRelay(p)]_vars

\* The server has accepted the role message of client 1 and sent it on to
\* client 2, the other connected client.
OwnershipFanOutWitness ==
    /\ ServerClientId \notin Stopped
    /\ Last.op = "Role" /\ Last.res = "accepted"
    /\ Connected = {1, 2}
    /\ Len(Last.sends) = 1
    /\ Last.sends[1].targets = {2}

\* ---------------------------------------------------------------------
\* What changes an owner
\* ---------------------------------------------------------------------

\* The entries of peer p whose owner differs after the step.
OwnerChanged(p) ==
    {o \in DOMAIN Objects[p] \cap DOMAIN Objects'[p] :
        Objects'[p][o].OwnerClientId # Objects[p][o].OwnerClientId}

\* The step is a SetObjectOwnership of the entry's owner or an accepted role
\* message.
OwnerSequenced(p, o) ==
    \/ Last'.op = "SetObjectOwnership" /\ Objects[p][o].OwnerClientId = LocalClientId(p)
    \/ Last'.op = "Role" /\ Last'.res = "accepted"

\* C31 as stated: the owner of an existing entry changes only in a
\* SetObjectOwnership called by its owner or in an accepted role message.
OwnerChangesSequenced ==
    [][\A p \in Peers : \A o \in OwnerChanged(p) : OwnerSequenced(p, o)]_vars

\* C31, amended: the owner of an existing entry changes only in a
\* SetObjectOwnership called by its owner, in an accepted role message or,
\* on a client, in a spawn message that resolves to the entry.
OwnerChangesSequencedOrSpawned ==
    [][\A p \in Peers : \A o \in OwnerChanged(p) :
          \/ OwnerSequenced(p, o)
          \/ IsClient(p) /\ Last'.op = "Spawn" /\ Last'.res = "resolved"]_vars

\* A client has given an entry of its own to the server.
OwnerChangesSequencedWitness ==
    /\ Last.op = "SetObjectOwnership" /\ Last.res = "sent"
    /\ \E p \in Clients \ Stopped : \E o \in DOMAIN Objects[p] \cap LocalIds(p) :
          /\ Objects[p][o].OwnerClientId = ServerClientId
          /\ Objects[p][o].LastOwnerFrame = 1
          /\ Last.sends = RoleSend(o, ServerClientId, {ServerClientId})

\* ---------------------------------------------------------------------
\* Entries whose object is gone
\* ---------------------------------------------------------------------

\* Peer p tracks id and the object of id no longer exists.
DeadEntry(p, id) == id \in DOMAIN Objects[p] /\ ~ObjectAlive(p, id)

\* The ids a step's messages of the given kinds are about.
SentAbout(sends, kinds) ==
    {sends[i].msg.ObjectId : i \in {j \in 1..Len(sends) : sends[j].msg.kind \in kinds}}

\* The tick left everything it reads as it found it, the frame counter
\* apart: every later tick of p does the same until something else happens.
TickSettled(p) ==
    /\ Objects'[p] = Objects[p]
    /\ SpawnQueue'[p] = SpawnQueue[p]
    /\ DespawnQueue'[p] = DespawnQueue[p]
    /\ NewClients' = NewClients
    /\ SerializersTable'[p] = SerializersTable[p]
    /\ Stopped' = Stopped

\* C32: on every peer whose ticks keep running, an entry whose object no
\* longer exists (one destroyed by a local DespawnObject included) is
\* eventually removed from the registry, and no tick sends a state update or
\* a spawn message for such an entry. Ticks remove a dead entry eventually
\* only if no tick that has settled leaves one in the registry.
LazyReap ==
    [][\A p \in Peers \ Stopped : \A order \in Orders :
          (Last'.op = "Update" /\ NetworkReplicatorUpdate(p, order))
             => \A id \in AllGuids :
                   /\ DeadEntry(p, id) =>
                         id \notin SentAbout(Last'.sends, {"Spawn", "Replicate"})
                   /\ TickSettled(p) => ~DeadEntry(p, id)]_vars

\* C32, amended: a tick of the server that reaches the broadcast removes
\* every entry whose object no longer exists; a tick of a client removes no
\* entry, so a dead entry stays in a client's registry; and no tick of any
\* peer sends a state update or a spawn message for a dead entry.
LazyReapServer ==
    [][\A p \in Peers \ Stopped : \A order \in Orders :
          (Last'.op = "Update" /\ NetworkReplicatorUpdate(p, order))
             => \A id \in AllGuids :
                   /\ DeadEntry(p, id) =>
                         id \notin SentAbout(Last'.sends, {"Spawn", "Replicate"})
                   /\ (~IsClient(p) /\ Last'.res = "done") =>
                         (id \in DOMAIN Objects'[p] => id \in DOMAIN Heap'[p])
                   /\ (IsClient(p) /\ DeadEntry(p, id)) => id \in DOMAIN Objects'[p]]_vars

\* The server has despawned its object, and the tick that sent the despawn
\* message has removed the entry.
LazyReapWitness ==
    /\ ServerClientId \notin Stopped
    /\ Last.op = "Update" /\ Last.res = "done"
    /\ DespawnCount[ServerClientId][ServerObjectId] = 1
    /\ ServerObjectId \notin DOMAIN Heap[ServerClientId]
    /\ ServerObjectId \notin DOMAIN Objects[ServerClientId]

\* ---------------------------------------------------------------------
\* Objects without a serializer
\* ---------------------------------------------------------------------

\* The entries of peer p whose object is alive and has no serializer.
Unserializable(p) ==
    {id \in DOMAIN Objects[p] \cap DOMAIN Heap[p] :
        InvokeSerializer(SerializersTable[p], Heap[p][id].Type).failed}

\* The warnings of a step are about entries not warned about before, and
\* leave them marked.
WarnedOnce(p, warned) ==
    \A id \in warned : /\ id \in DOMAIN Objects[p] /\ ~Objects[p][id].InvalidTypeWarn
                        /\ id \in DOMAIN Objects'[p] /\ Objects'[p][id].InvalidTypeWarn

\* C33: when the serializer fails for an entry during the broadcast, the tick
\* sends no state update for it and the entry stays in the registry; over
\* any ticks and inbound state updates the missing serializer is logged at
\* most once per entry: a log is about an entry not yet marked, marks it, and
\* the mark of an entry is never taken back.
UnserializableSkipped ==
    [][\A p \in Peers \ Stopped :
          /\ \A order \in Orders :
                (Last'.op = "Update" /\ NetworkReplicatorUpdate(p, order)) =>
                    LET r == NetworkReplicatorUpdateResult(p, order)
                    IN  /\ WarnedOnce(p, r.warned)
                        /\ (~IsClient(p) /\ r.exit = "done") =>
                              \A id \in Unserializable(p) :
                                 /\ id \notin SentAbout(Last'.sends, {"Replicate"})
                                 /\ id \in DOMAIN Objects'[p]
                                 /\ Objects'[p][id].InvalidTypeWarn
          /\ Last'.op = "Replicate" =>
                \A client \in Senders(p) : \A msgData \in Messages(p, "Replicate") :
                    \A order \in Orders :
                        Handled(p, client, msgData, order, Reliable, Unreliable)
                            => WarnedOnce(p, Handle(p, client, msgData, order).warned)
          /\ \A id \in DOMAIN Objects[p] \cap DOMAIN Objects'[p] :
                Objects[p][id].InvalidTypeWarn => Objects'[p][id].InvalidTypeWarn]_vars

\* The server has run a tick that sent state updates to a client but none
\* for an entry whose type has no serializer; the entry is marked.
UnserializableSkippedWitness ==
    /\ ServerClientId \notin Stopped
    /\ Last.op = "Update" /\ Last.res = "done"
    /\ Connected # {}
    /\ \E id \in Unserializable(ServerClientId) :
          /\ Objects[ServerClientId][id].InvalidTypeWarn
          /\ id \notin SentAbout(Last.sends, {"Replicate"})
    /\ SentAbout(Last.sends, {"Replicate"}) # {}

\* ---------------------------------------------------------------------
\* The queues hold no object twice
\* ---------------------------------------------------------------------

NoDuplicates(q) == \A i, j \in 1..Len(q) : q[i] = q[j] => i = j

\* C34: after any calls, ticks and messages each object occurs at most once
\* in the spawn queue and at most once in the despawn queue of a peer, and
\* the assertion of DespawnObject that the despawn queue does not hold the
\* id yet never fails.
QueuesDeduplicated ==
    /\ \A p \in Peers : NoDuplicates(SpawnQueue[p]) /\ NoDuplicates(DespawnQueue[p])
    /\ Last.op = "DespawnObject" => Last.res # "assert"

\* A peer has queued the despawn of an object while the spawn of another
\* call waits in the spawn queue.
QueuesDeduplicatedWitness ==
    /\ Last.op = "DespawnObject" /\ Last.res = "despawned"
    /\ \E p \in Peers \ Stopped : Len(DespawnQueue[p]) = 1 /\ Len(SpawnQueue[p]) = 1

\* ---------------------------------------------------------------------
\* A session in which the ownership of a shared object moves
\* ---------------------------------------------------------------------

\* The server and client 1 both registered the scene object, the server
\* spawned it and its Spawn message reached client 1; the server either
\* still owns the object or has handed it to client 1 with
\* SetObjectOwnership, whose role message client 1 has handled. Client 2
\* runs and has not connected yet.
OwnershipItem(p, owner) ==
    [NewItem(SceneId, GuidEmpty, owner,
             IF owner = LocalClientId(p) THEN RoleOwnedAuthoritative ELSE RoleReplicated,
             TRUE)
     EXCEPT !.LastOwnerFrame = IF p = ServerClientId /\ owner # ServerClientId THEN 1 ELSE 0]

InitOwnership ==
    /\ InitTypes
    /\ \E owner \in {ServerClientId, 1} :
          Objects = [p \in Peers |->
                        IF p \in {ServerClientId, 1}
                        THEN [id \in {SceneId} |-> OwnershipItem(p, owner)]
                        ELSE EmptyMap]
    /\ Heap = [p \in Peers |-> GameObjects({SceneId})]
    /\ NextGuid = [p \in Peers |-> 0]
    /\ SpawnQueue = [p \in Peers |-> <<>>]
    /\ DespawnQueue = [p \in Peers |-> <<>>]
    /\ IdsRemappingTable = [p \in Peers |-> EmptyMap]
    /\ NewClients = <<>>
    /\ Connected = {1}
    /\ Frame = 1
    /\ Reliable = [k \in Channels |-> <<>>]
    /\ Unreliable = [c \in Clients |-> {}]
    /\ Stopped = {}
    /\ Last = NoOp("Init", ServerClientId, GuidEmpty)
    /\ SpawnCount = [p \in Peers |-> [id \in AllGuids |->
                        IF p = ServerClientId /\ id = SceneId THEN 1 ELSE 0]]
    /\ DespawnCount = [p \in Peers |-> [id \in AllGuids |-> 0]]
    /\ DespawnCalls = [p \in Peers |-> [id \in AllGuids |-> "none"]]
    /\ HighestAccepted = [p \in Peers |-> [id \in AllGuids |-> 0]]
    /\ Despawned = [p \in Peers |-> {}]
    /\ SpawnSent = [c \in Clients |-> IF c = 1 THEN {SceneId} ELSE {}]
    /\ Locking = LockFree
    /\ Steps = 0

SpecOwnership == InitOwnership /\ [][Next]_vars

\* The entries of a peer that stand for an object id used on the wire: the
\* entry registered under that id and the entry the remapping table binds
\* to it.
Denoting(p, id) ==
    ({id} \cup (IF id \in DOMAIN IdsRemappingTable[p]
                THEN {IdsRemappingTable[p][id]} ELSE {}))
    \cap DOMAIN Objects[p]

\* The peers that hold role OwnedAuthoritative for the object that travels
\* as id.
Authorities(id) ==
    {p \in Peers : \E e \in Denoting(p, id) : Objects[p][e].Role = RoleOwnedAuthoritative}

\* C35: in every state of a server and its clients exchanging Spawn and
\* role messages over reliable ordered channels at most one peer holds role
\* OwnedAuthoritative for the entries that denote one object.
SingleAuthority ==
    \A id \in AllGuids : Cardinality(Authorities(id)) <= 1

\* A client has handled the role message that makes it the owner of an
\* object the server tracks too: the client is the authority and the server,
\* which gave the object away, is not.
SingleAuthorityWitness ==
    /\ Last.op = "Role"
    /\ \E c \in Clients : \E id \in DOMAIN Objects[ServerClientId] \cap DOMAIN Objects[c] :
          /\ Objects[c][id].Role = RoleOwnedAuthoritative
          /\ Objects[c][id].OwnerClientId = c
          /\ Objects[ServerClientId][id].OwnerClientId = c
          /\ Objects[ServerClientId][id].Role # RoleOwnedAuthoritative

\* No Spawn or role message is in flight and no client waits for its
\* catch-up Spawn messages.
Delivered ==
    /\ \A k \in Channels : Reliable[k] = <<>>
    /\ NewClients = <<>>

\* The connected clients whose entries for the object the server tracks as
\* id record another owner than the server's entry.
Disagreeing(id) ==
    {c \in Connected : \E e \in Denoting(c, id) :
        Objects[c][e].OwnerClientId # Objects[ServerClientId][id].OwnerClientId}

\* C36: once every Spawn and role message in flight has been delivered,
\* every connected client that tracks an object, a client that joined late
\* and learned of it through a catch-up Spawn included, records the same
\* owner for it as the server.
OwnerConvergence ==
    Delivered => \A id \in DOMAIN Objects[ServerClientId] : Disagreeing(id) = {}

\* ---------------------------------------------------------------------
\* A rejected state update
\* ---------------------------------------------------------------------

\* The returns of OnNetworkMessageObjectReplicate that drop the message: no
\* entry resolved, sender not the owner, object owned locally, old data.
RejectedUpdate == {"unresolved", "notowner", "owned", "stale"}

\* C37: a state update that is rejected (unresolved object, sender not the
\* owner, local role OwnedAuthoritative, or stale sequence) changes nothing
\* on the receiving peer: the registry, the remapping table and both queues
\* are the same before and after it is handled.
RejectedUpdateChangesNothing ==
    [][Last'.op = "Replicate" /\ Last'.res \in RejectedUpdate =>
         UNCHANGED <<Objects, IdsRemappingTable, SpawnQueue, DespawnQueue>>]_vars

\* ---------------------------------------------------------------------
\* SetObjectOwnership of a peer that is not the owner
\* ---------------------------------------------------------------------

\* The entry obj of peer p is owned by another peer.
OwnedElsewhere(p, obj) ==
    /\ obj \in DOMAIN Objects[p]
    /\ Objects[p][obj].OwnerClientId # LocalClientId(p)

\* C38: SetObjectOwnership called on a peer that is not the entry's owner
\* never changes the entry's owner or LastOwnerFrame and sends no role
\* message; it changes at most the local role, and never to
\* OwnedAuthoritative.
NonOwnerSetsRoleOnly ==
    [][\A p \in Peers \ Stopped : Last'.op = "SetObjectOwnership" =>
         \A obj \in ObjectArgs(p) : \A owner \in OwnerArgs : \A role \in Roles :
            OwnedElsewhere(p, obj) /\ SetObjectOwnership(p, obj, owner, role) =>
               /\ Objects'[p] = [Objects[p] EXCEPT ![obj].Role = Objects'[p][obj].Role]
               /\ Objects'[p][obj].Role # Objects[p][obj].Role =>
                     Objects'[p][obj].Role # RoleOwnedAuthoritative
               /\ Last'.sends = <<>>
               /\ UNCHANGED <<Reliable, Unreliable>>]_vars

\* A peer that is not the owner of an entry has called SetObjectOwnership
\* with role None: the entry's role is None and its owner is still the other
\* peer.
NonOwnerSetsRoleOnlyWitness ==
    /\ Last.op = "SetObjectOwnership" /\ Last.res = "role"
    /\ \E p \in Peers \ Stopped : \E obj \in DOMAIN Objects[p] :
          /\ Objects[p][obj].OwnerClientId # LocalClientId(p)
          /\ Objects[p][obj].Role = RoleNone

====
